---- MODULE Spec2Model ----
(***************************************************************************)
(* Model of the vine-reputation client (src/src/index.ts): byte codec,     *)
(* discriminators, PDA helpers, account decoders, the dual-layout season   *)
(* scan and the instruction builders.                                      *)
(*                                                                         *)
(* Byte arrays are sequences of 0..255 with the offsets of the source      *)
(* (JavaScript offset o is index o+1 here).  A PublicKey is its 32 bytes.  *)
(* A bigint is a little-endian sequence of nine base-256 digits, so that   *)
(* 64-bit values and the carry out of a 64-bit sum are exact.              *)
(***************************************************************************)
EXTENDS Integers, Sequences, FiniteSets, TLC

VARIABLES
    discCache,    \* Map preimage -> 8 bytes (index.ts:145)
    fPc,          \* position of the fetchReputationsForDaoSeason call
    fArgs,        \* its arguments (season, limit)
    newSettled,   \* settlement of the current-layout getProgramAccounts query
    oldSettled,   \* settlement of the legacy-layout getProgramAccounts query
    fFirst,       \* which of the two responses arrived first
    fResult,      \* the rows the call returned
    cfgAccount,   \* collaborator: bytes of the account at the Config PDA, or NoAccount
    repAccount,   \* collaborator: the account at the Reputation PDA of (Dao1, UserA, current season)
    repInitial,   \* that account as it was before any instruction was applied
    calls,        \* per builder call: position, arguments, reads made, outcome
    ixCall,       \* the last call of a function called on its own (builder, decoder,
                  \* PDA helper, discriminator): its name and arguments
    ixOut         \* and what it returned or threw

vars == <<discCache, fPc, fArgs, newSettled, oldSettled, fFirst, fResult,
          cfgAccount, repAccount, repInitial, calls, ixCall, ixOut>>

fetchVars == <<fPc, fArgs, newSettled, oldSettled, fFirst, fResult>>
addVars   == <<cfgAccount, repAccount, repInitial, calls>>
ixVars    == <<ixCall, ixOut>>

----------------------------------------------------------------------------
(* Small helpers *)

Zeros(n) == [i \in 1..n |-> 0]

\* data.subarray(from, to) with JavaScript's clamping of both ends
subarray(data, from, to) ==
    LET t == IF to > Len(data) THEN Len(data) ELSE to IN
    IF from >= t THEN <<>> ELSE SubSeq(data, from + 1, t)

u8eq(a, b) == Len(a) = Len(b) /\ \A i \in 1..Len(a) : a[i] = b[i]

\* a season brought into 0..65535 by clamping instead of wrapping
Mask16_Clamp(n) == IF n < 0 THEN 0 ELSE IF n > 65535 THEN 65535 ELSE n

\* n & 0xffff on an integer n (two's complement: the residue mod 2^16)
Mask16(n) == n % 65536

\* the two bytes in the other order
u16le_BigEndian(n) == <<(n \div 256) % 256, n % 256>>

u16le(n) == <<n % 256, (n \div 256) % 256>>

u32le(n) == <<n % 256, (n \div 256) % 256, (n \div 65536) % 256, (n \div 16777216) % 256>>

\* bigint values: nine base-256 digits, least significant first
BigOf(n) == <<n % 256, (n \div 256) % 256, (n \div 65536) % 256,
              (n \div 16777216) % 256, 0, 0, 0, 0, 0>>

RECURSIVE BigAddFrom(_, _, _, _)
BigAddFrom(a, b, i, carry) ==
    IF i > Len(a) THEN <<>>
    ELSE LET s == a[i] + b[i] + carry
         IN  <<s % 256>> \o BigAddFrom(a, b, i + 1, s \div 256)

\* current + args.amount on bigints
BigAdd(a, b) == BigAddFrom(a, b, 1, 0)

RECURSIVE BigCmpFrom(_, _, _)
BigCmpFrom(a, b, i) ==
    IF i = 0 THEN 0
    ELSE IF a[i] > b[i] THEN 1
    ELSE IF a[i] < b[i] THEN -1
    ELSE BigCmpFrom(a, b, i - 1)

\* -1, 0, 1 as a < b, a = b, a > b
BigCmp(a, b) == BigCmpFrom(a, b, Len(a))

\* u64le: the low eight bytes (x & 0xff, x >>= 8, eight times)
u64le(n) == SubSeq(n, 1, 8)

\* readU16LE giving the value as a signed 16-bit integer
readU16LE_Signed(buf, offset) ==
    IF offset + 2 > Len(buf) THEN [ok |-> FALSE, err |-> "u16 out of bounds"]
    ELSE LET v == buf[offset + 1] + 256 * buf[offset + 2]
         IN  [ok |-> TRUE, val |-> IF v >= 32768 THEN v - 65536 ELSE v]

readU16LE(buf, offset) ==
    IF offset + 2 > Len(buf) THEN [ok |-> FALSE, err |-> "u16 out of bounds"]
    ELSE [ok |-> TRUE, val |-> buf[offset + 1] + 256 * buf[offset + 2]]

readU64LE(buf, offset) ==
    IF offset + 8 > Len(buf) THEN [ok |-> FALSE, err |-> "u64 out of bounds"]
    ELSE [ok |-> TRUE, val |-> SubSeq(buf, offset + 1, offset + 8) \o <<0>>]

\* readU32LE: the unsigned 32-bit value (>>> 0), as a bigint since it may
\* exceed 2^31
readU32LE(buf, offset) ==
    IF offset + 4 > Len(buf) THEN [ok |-> FALSE, err |-> "u32 out of bounds"]
    ELSE [ok |-> TRUE, val |-> SubSeq(buf, offset + 1, offset + 4) \o <<0, 0, 0, 0, 0>>]

\* Number(x) of a bigint below 2^24
NumberOf(x) == x[1] + 256 * x[2] + 65536 * x[3]

\* what indexing a typed array past its end yields: undefined, no byte value
Undefined == -1

\* buf[o]
byteAt(buf, o) == IF o < Len(buf) THEN buf[o + 1] ELSE Undefined

----------------------------------------------------------------------------
(* UTF-8.  A string is the sequence of its code points. *)

ReplacementChar == 65533

\* the bytes TextEncoder writes for one code point (a lone surrogate is
\* written as U+FFFD)
utf8OfCodePoint(cp) ==
    LET c == IF cp >= 55296 /\ cp <= 57343 THEN ReplacementChar ELSE cp IN
    IF c < 128 THEN <<c>>
    ELSE IF c < 2048 THEN <<192 + (c \div 64), 128 + (c % 64)>>
    ELSE IF c < 65536
         THEN <<224 + (c \div 4096), 128 + ((c \div 64) % 64), 128 + (c % 64)>>
    ELSE <<240 + (c \div 262144), 128 + ((c \div 4096) % 64),
           128 + ((c \div 64) % 64), 128 + (c % 64)>>

RECURSIVE utf8(_)
\* new TextEncoder().encode(s)
utf8(s) == IF s = <<>> THEN <<>> ELSE utf8OfCodePoint(Head(s)) \o utf8(Tail(s))

\* how many continuation bytes a lead byte announces; -1 for a byte that
\* cannot lead
utf8Needed(b) ==
    IF b >= 194 /\ b <= 223 THEN 1
    ELSE IF b >= 224 /\ b <= 239 THEN 2
    ELSE IF b >= 240 /\ b <= 244 THEN 3
    ELSE -1

\* the range the first continuation byte must lie in, after lead byte b
utf8Lower(b) == IF b = 224 THEN 160 ELSE IF b = 240 THEN 144 ELSE 128
utf8Upper(b) == IF b = 237 THEN 159 ELSE IF b = 244 THEN 143 ELSE 191

RECURSIVE utf8DecodeFrom(_, _)
\* the WHATWG UTF-8 decoder from byte index i on: a malformed sequence
\* gives one U+FFFD and decoding resumes at the byte that broke it
utf8DecodeFrom(bytes, i) ==
    IF i > Len(bytes) THEN <<>>
    ELSE LET b == bytes[i] IN
         IF b < 128 THEN <<b>> \o utf8DecodeFrom(bytes, i + 1)
         ELSE IF utf8Needed(b) = -1 THEN <<ReplacementChar>> \o utf8DecodeFrom(bytes, i + 1)
         ELSE LET n == utf8Needed(b)
                  okAt(k) == /\ i + k <= Len(bytes)
                             /\ bytes[i + k] >= (IF k = 1 THEN utf8Lower(b) ELSE 128)
                             /\ bytes[i + k] <= (IF k = 1 THEN utf8Upper(b) ELSE 191)
                  good == CHOOSE g \in 0..n :
                             /\ \A k \in 1..g : okAt(k)
                             /\ (g < n => ~okAt(g + 1))
                  lead == IF n = 1 THEN b - 192 ELSE IF n = 2 THEN b - 224 ELSE b - 240
                  cp == IF n = 1 THEN lead * 64 + (bytes[i + 1] - 128)
                        ELSE IF n = 2
                             THEN lead * 4096 + (bytes[i + 1] - 128) * 64 + (bytes[i + 2] - 128)
                        ELSE lead * 262144 + (bytes[i + 1] - 128) * 4096
                                 + (bytes[i + 2] - 128) * 64 + (bytes[i + 3] - 128)
              IN  IF good = n THEN <<cp>> \o utf8DecodeFrom(bytes, i + n + 1)
                  ELSE <<ReplacementChar>> \o utf8DecodeFrom(bytes, i + good + 1)

\* new TextDecoder().decode(bytes): a leading byte order mark is dropped
TextDecode(bytes) ==
    IF Len(bytes) >= 3 /\ SubSeq(bytes, 1, 3) = <<239, 187, 191>>
    THEN utf8DecodeFrom(bytes, 4)
    ELSE utf8DecodeFrom(bytes, 1)

\* encodeAnchorString with the character count as the length prefix
encodeAnchorString_CharCount(s) == [len |-> u32le(Len(s)), bytes |-> utf8(s)]

\* encodeAnchorString: u32 byte count, then the UTF-8 bytes
encodeAnchorString(s) == [len |-> u32le(Len(utf8(s))), bytes |-> utf8(s)]

----------------------------------------------------------------------------
(* Public keys and PDA helpers *)

\* a wallet / DAO / program key: 32 bytes, the last 30 zero
Key(a, b) == <<a, b>> \o Zeros(30)

VINE_REP_PROGRAM_ID == Key(86, 49)
SystemProgramId == Zeros(32)

Pad32(s) == s \o Zeros(32 - Len(s))

\* PublicKey.findProgramAddressSync: a collision-resistant hash of the seeds
\* and the program id.  Modelled as an injective packing of the seeds into 32
\* bytes: injective on keys whose bytes beyond the packed prefix are zero,
\* which holds of every key of this model.  The bump is the first probe.
findProgramAddressSync(seeds, programId) ==
    LET tag == seeds[1] IN
    CASE tag = "config" ->
           <<Pad32(<<251>> \o SubSeq(seeds[2], 1, 2) \o SubSeq(programId, 1, 2)), 255>>
      [] tag = "project_meta" ->
           <<Pad32(<<252>> \o SubSeq(seeds[2], 1, 2) \o SubSeq(programId, 1, 2)), 255>>
      [] tag = "reputation" ->
           <<Pad32(<<253>> \o SubSeq(seeds[2], 1, 5) \o SubSeq(seeds[3], 1, 22)
                   \o seeds[4] \o SubSeq(programId, 1, 2)), 255>>

getConfigPda(daoId, programId) ==
    findProgramAddressSync(<<"config", daoId>>, programId)

getProjectMetaPda(daoId, programId) ==
    findProgramAddressSync(<<"project_meta", daoId>>, programId)

\* the seed list getReputationPda hands to findProgramAddressSync
reputationSeeds(configPda, user, season) ==
    LET seasonSeed == u16le(Mask16(season))
    IN  <<"reputation", configPda, user, seasonSeed>>

getReputationPda(configPda, user, season, programId) ==
    findProgramAddressSync(reputationSeeds(configPda, user, season), programId)

----------------------------------------------------------------------------
(* Anchor discriminators *)

\* sha256(utf8ToBytes(preimage)).slice(0, 8), for the preimages the model uses
Sha256First8(preimage) ==
    CASE preimage = "account:Reputation"                 -> <<55, 148, 90, 71, 68, 183, 193, 28>>
      [] preimage = "account:ReputationConfig"           -> <<46, 222, 226, 114, 243, 60, 242, 75>>
      [] preimage = "account:ProjectMetadata"            -> <<107, 101, 249, 241, 99, 176, 170, 114>>
      [] preimage = "account:reputationConfig"           -> <<187, 155, 127, 15, 182, 99, 88, 46>>
      [] preimage = "global:initialize_config"           -> <<208, 127, 21, 1, 194, 190, 196, 70>>
      [] preimage = "global:set_authority"               -> <<133, 250, 37, 21, 110, 163, 26, 121>>
      [] preimage = "global:set_season"                  -> <<186, 168, 212, 35, 125, 205, 106, 174>>
      [] preimage = "global:set_decay_bps"               -> <<217, 160, 222, 162, 151, 39, 136, 73>>
      [] preimage = "global:set_rep_mint"                -> <<82, 155, 155, 51, 175, 145, 200, 216>>
      [] preimage = "global:add_reputation"              -> <<233, 231, 175, 148, 64, 124, 103, 123>>
      [] preimage = "global:reset_reputation"            -> <<164, 101, 238, 179, 188, 139, 144, 16>>
      [] preimage = "global:transfer_reputation"         -> <<126, 143, 116, 35, 79, 170, 220, 199>>
      [] preimage = "global:upsert_project_metadata"     -> <<251, 90, 146, 137, 251, 125, 82, 78>>
      [] preimage = "global:close_reputation"            -> <<25, 55, 76, 203, 147, 134, 32, 151>>
      [] preimage = "global:close_project_metadata"      -> <<24, 190, 207, 207, 153, 60, 53, 87>>
      [] preimage = "global:close_config"                -> <<145, 9, 72, 157, 95, 125, 61, 85>>
      [] preimage = "global:admin_close_any"             -> <<169, 99, 164, 119, 136, 77, 23, 205>>
      [] preimage = "global:my_new_ix"                   -> <<14, 207, 248, 80, 111, 132, 219, 231>>
      [] preimage = "global:set_v2_config"               -> <<2, 178, 236, 93, 42, 250, 147, 207>>
      [] preimage = "global:parse_url"                   -> <<53, 45, 62, 57, 51, 96, 99, 173>>
      [] preimage = "global:a_b"                         -> <<234, 36, 90, 164, 177, 29, 64, 254>>
      [] preimage = "global:a__b"                        -> <<140, 246, 145, 85, 43, 72, 239, 168>>
      [] preimage = "global:foo"                         -> <<138, 230, 34, 50, 173, 65, 225, 251>>
      [] preimage = "global:my_ix"                       -> <<38, 19, 70, 194, 0, 59, 80, 114>>
      [] preimage = "global:a___b"                       -> <<170, 168, 150, 129, 129, 18, 239, 195>>

(* Strings are atomic values here, so the spelling of the names that go     *)
(* through the generic conversion is given by a table.                      *)

\* the characters of a string
Chars(s) ==
    CASE s = "myNewIx"        -> <<"m", "y", "N", "e", "w", "I", "x">>
      [] s = "setV2Config"    -> <<"s", "e", "t", "V", "2", "C", "o", "n", "f", "i", "g">>
      [] s = "parseURL"       -> <<"p", "a", "r", "s", "e", "U", "R", "L">>
      [] s = "a__b"           -> <<"a", "_", "_", "b">>
      [] s = "a___b"          -> <<"a", "_", "_", "_", "b">>
      [] s = "Foo"            -> <<"F", "o", "o">>
      [] s = "my_Ix"          -> <<"m", "y", "_", "I", "x">>
      [] s = "my_new_ix"      -> <<"m", "y", "_", "n", "e", "w", "_", "i", "x">>
      [] s = "set_v2_config"  -> <<"s", "e", "t", "_", "v", "2", "_", "c", "o", "n", "f", "i", "g">>
      [] s = "parse_url"      -> <<"p", "a", "r", "s", "e", "_", "u", "r", "l">>
      [] s = "a_b"            -> <<"a", "_", "b">>
      [] s = "foo"            -> <<"f", "o", "o">>
      [] s = "my_ix"          -> <<"m", "y", "_", "i", "x">>

Words == {"myNewIx", "setV2Config", "parseURL", "a__b", "a___b", "Foo", "my_Ix", "my_new_ix", "set_v2_config", "parse_url", "a_b", "foo", "my_ix"}

\* the string with these characters
Text(chars) == CHOOSE w \in Words : Chars(w) = chars

LowerCase == <<"a", "b", "c", "d", "e", "f", "g", "h", "i", "j", "k", "l", "m", "n", "o", "p", "q", "r", "s", "t", "u", "v", "w", "x", "y", "z">>
UpperCase == <<"A", "B", "C", "D", "E", "F", "G", "H", "I", "J", "K", "L", "M", "N", "O", "P", "Q", "R", "S", "T", "U", "V", "W", "X", "Y", "Z">>
Digits == <<"0", "1", "2", "3", "4", "5", "6", "7", "8", "9">>

IsUpper(c) == \E i \in 1..Len(UpperCase) : UpperCase[i] = c
IsLowerOrDigit(c) ==
    \/ \E i \in 1..Len(LowerCase) : LowerCase[i] = c
    \/ \E i \in 1..Len(Digits) : Digits[i] = c

\* c.toLowerCase()
toLowerChar(c) ==
    IF IsUpper(c) THEN LowerCase[CHOOSE i \in 1..Len(UpperCase) : UpperCase[i] = c] ELSE c

RECURSIVE insertUnderscores(_, _)
\* .replace(/([a-z0-9])([A-Z])/g, "$1_$2") from index i on
insertUnderscores(s, i) ==
    IF i > Len(s) THEN <<>>
    ELSE IF i < Len(s) /\ IsLowerOrDigit(s[i]) /\ IsUpper(s[i + 1])
         THEN <<s[i], "_", s[i + 1]>> \o insertUnderscores(s, i + 2)
         ELSE <<s[i]>> \o insertUnderscores(s, i + 1)

RECURSIVE collapseUnderscores(_, _)
\* .replace(/__/g, "_") from index i on: each pair, left to right, becomes one
collapseUnderscores(s, i) ==
    IF i > Len(s) THEN <<>>
    ELSE IF i < Len(s) /\ s[i] = "_" /\ s[i + 1] = "_"
         THEN <<"_">> \o collapseUnderscores(s, i + 2)
         ELSE <<s[i]>> \o collapseUnderscores(s, i + 1)

\* .toLowerCase()
toLowerCase(s) == [i \in 1..Len(s) |-> toLowerChar(s[i])]

\* camelToSnake without the second replace
camelToSnake_NoCollapse(s) == toLowerCase(insertUnderscores(s, 1))

camelToSnake(s) == toLowerCase(collapseUnderscores(insertUnderscores(s, 1), 1))

ixNameOnChain(ix) ==
    CASE ix = "initializeConfig"       -> "initialize_config"
      [] ix = "setAuthority"           -> "set_authority"
      [] ix = "setSeason"              -> "set_season"
      [] ix = "setDecayBps"            -> "set_decay_bps"
      [] ix = "setRepMint"             -> "set_rep_mint"
      [] ix = "addReputation"          -> "add_reputation"
      [] ix = "resetReputation"        -> "reset_reputation"
      [] ix = "transferReputation"     -> "transfer_reputation"
      [] ix = "upsertProjectMetadata"  -> "upsert_project_metadata"
      [] ix = "closeReputation"        -> "close_reputation"
      [] ix = "closeProjectMetadata"   -> "close_project_metadata"
      [] ix = "closeConfig"            -> "close_config"
      [] ix = "adminCloseAny"          -> "admin_close_any"
      [] OTHER -> Text(camelToSnake(Chars(ix)))

\* `global:${onChain}`
GlobalOf(onChain) ==
    CASE onChain = "initialize_config"        -> "global:initialize_config"
      [] onChain = "set_authority"            -> "global:set_authority"
      [] onChain = "set_season"               -> "global:set_season"
      [] onChain = "set_decay_bps"            -> "global:set_decay_bps"
      [] onChain = "set_rep_mint"             -> "global:set_rep_mint"
      [] onChain = "add_reputation"           -> "global:add_reputation"
      [] onChain = "reset_reputation"         -> "global:reset_reputation"
      [] onChain = "transfer_reputation"      -> "global:transfer_reputation"
      [] onChain = "upsert_project_metadata"  -> "global:upsert_project_metadata"
      [] onChain = "close_reputation"         -> "global:close_reputation"
      [] onChain = "close_project_metadata"   -> "global:close_project_metadata"
      [] onChain = "close_config"             -> "global:close_config"
      [] onChain = "admin_close_any"          -> "global:admin_close_any"
      [] onChain = "my_new_ix"                -> "global:my_new_ix"
      [] onChain = "set_v2_config"            -> "global:set_v2_config"
      [] onChain = "parse_url"                -> "global:parse_url"
      [] onChain = "a_b"                      -> "global:a_b"
      [] onChain = "a__b"                     -> "global:a__b"
      [] onChain = "foo"                      -> "global:foo"
      [] onChain = "my_ix"                    -> "global:my_ix"
      [] onChain = "a___b"                    -> "global:a___b"

\* the preimage ixDiscriminator hashes
ixPreimage(idlIxName) == GlobalOf(ixNameOnChain(idlIxName))

\* `account:${accountName}`
accountPreimage(accountName) ==
    CASE accountName = "Reputation"       -> "account:Reputation"
      [] accountName = "ReputationConfig" -> "account:ReputationConfig"
      [] accountName = "ProjectMetadata"  -> "account:ProjectMetadata"
      [] accountName = "reputationConfig" -> "account:reputationConfig"

\* anchorDiscSync: the cached array when there is one, else the fresh digest
anchorDiscSync(cache, preimage) ==
    IF preimage \in DOMAIN cache THEN cache[preimage] ELSE Sha256First8(preimage)

\* the cache after anchorDiscSync(preimage)
cachePut(cache, preimage) ==
    IF preimage \in DOMAIN cache THEN cache
    ELSE [p \in DOMAIN cache \cup {preimage} |->
            IF p = preimage THEN Sha256First8(preimage) ELSE cache[p]]

ixDiscriminator(cache, idlIxName) == anchorDiscSync(cache, ixPreimage(idlIxName))

accountDiscriminator(cache, accountName) == anchorDiscSync(cache, accountPreimage(accountName))

----------------------------------------------------------------------------
(* Account decoders.  A decoder that throws returns [ok |-> FALSE, err]. *)

ConfigMinLen == 113
RepOldMinLen == 64
RepNewMinLen == 92

\* decodeReputationConfig with the length test ahead of the discriminator test
decodeReputationConfig_BoundsFirst(cache, data) ==
    LET disc == accountDiscriminator(cache, "ReputationConfig") IN
    IF Len(data) < 8 THEN [ok |-> FALSE, err |-> "Config data too small"]
    ELSE IF Len(data) < ConfigMinLen THEN [ok |-> FALSE, err |-> "Config data out of bounds"]
    ELSE IF ~u8eq(subarray(data, 0, 8), disc)
    THEN [ok |-> FALSE, err |-> "Not a ReputationConfig account (bad discriminator)"]
    ELSE [ok |-> TRUE,
          version |-> data[9],
          daoId |-> subarray(data, 9, 41),
          authority |-> subarray(data, 41, 73),
          repMint |-> subarray(data, 73, 105),
          currentSeason |-> readU16LE(data, 105).val,
          decayBps |-> readU16LE(data, 107).val,
          bump |-> data[110]]

decodeReputationConfig(cache, data) ==
    LET disc == accountDiscriminator(cache, "ReputationConfig") IN
    IF Len(data) < 8 THEN [ok |-> FALSE, err |-> "Config data too small"]
    ELSE IF ~u8eq(subarray(data, 0, 8), disc)
    THEN [ok |-> FALSE, err |-> "Not a ReputationConfig account (bad discriminator)"]
    ELSE IF Len(data) < ConfigMinLen THEN [ok |-> FALSE, err |-> "Config data out of bounds"]
    ELSE [ok |-> TRUE,
          version |-> data[9],
          daoId |-> subarray(data, 9, 41),
          authority |-> subarray(data, 41, 73),
          repMint |-> subarray(data, 73, 105),
          currentSeason |-> readU16LE(data, 105).val,
          decayBps |-> readU16LE(data, 107).val,
          bump |-> data[110]]

\* the legacy-layout decoder: user at 9, season at 41, points at 43, slot at 51
decodeReputation(cache, data) ==
    LET disc == accountDiscriminator(cache, "Reputation") IN
    IF Len(data) < 8 THEN [ok |-> FALSE, err |-> "Reputation data too small"]
    ELSE IF ~u8eq(subarray(data, 0, 8), disc)
    THEN [ok |-> FALSE, err |-> "Not a Reputation account (bad discriminator)"]
    ELSE IF Len(data) < RepOldMinLen THEN [ok |-> FALSE, err |-> "Reputation data out of bounds"]
    ELSE [ok |-> TRUE,
          version |-> data[9],
          user |-> subarray(data, 9, 41),
          season |-> readU16LE(data, 41).val,
          points |-> readU64LE(data, 43).val,
          lastUpdateSlot |-> readU64LE(data, 51).val,
          bump |-> data[60]]

MetaMinLen == 46

\* decodeProjectMetadata with the bump byte left out of the length test
decodeProjectMetadata_NoBumpRoom(cache, data) ==
    LET disc == accountDiscriminator(cache, "ProjectMetadata") IN
    IF Len(data) < 8 THEN [ok |-> FALSE, err |-> "Metadata data too small"]
    ELSE IF ~u8eq(subarray(data, 0, 8), disc)
    THEN [ok |-> FALSE, err |-> "Not a ProjectMetadata account (bad discriminator)"]
    ELSE IF Len(data) < MetaMinLen THEN [ok |-> FALSE, err |-> "Metadata data out of bounds"]
    ELSE LET strLen == readU32LE(data, 41).val IN
         IF BigCmp(BigAdd(BigOf(45), strLen), BigOf(Len(data))) = 1
         THEN [ok |-> FALSE, err |-> "ProjectMetadata string length out of bounds"]
         ELSE LET n == NumberOf(strLen) IN
              [ok |-> TRUE,
               version |-> data[9],
               daoId |-> subarray(data, 9, 41),
               metadataUri |-> TextDecode(subarray(data, 45, 45 + n)),
               bump |-> byteAt(data, 45 + n)]

\* version at 8, dao at 9, u32 string length at 41, the string at 45, then
\* the bump; o + strLen + 1 > data.length is tested on exact integers
decodeProjectMetadata(cache, data) ==
    LET disc == accountDiscriminator(cache, "ProjectMetadata") IN
    IF Len(data) < 8 THEN [ok |-> FALSE, err |-> "Metadata data too small"]
    ELSE IF ~u8eq(subarray(data, 0, 8), disc)
    THEN [ok |-> FALSE, err |-> "Not a ProjectMetadata account (bad discriminator)"]
    ELSE IF Len(data) < MetaMinLen THEN [ok |-> FALSE, err |-> "Metadata data out of bounds"]
    ELSE LET strLen == readU32LE(data, 41).val IN
         IF BigCmp(BigAdd(BigAdd(BigOf(45), strLen), BigOf(1)), BigOf(Len(data))) = 1
         THEN [ok |-> FALSE, err |-> "ProjectMetadata string length out of bounds"]
         ELSE LET n == NumberOf(strLen) IN
              [ok |-> TRUE,
               version |-> data[9],
               daoId |-> subarray(data, 9, 41),
               metadataUri |-> TextDecode(subarray(data, 45, 45 + n)),
               bump |-> byteAt(data, 45 + n)]

isRepNewLayout(data) == Len(data) >= RepNewMinLen

\* the current-layout decoder: dao at 9 (skipped), user at 41, season at 73,
\* points at 75, slot at 83; no discriminator or length check of its own
decodeReputationNewLayout(data) ==
    LET season == readU16LE(data, 73)
        points == readU64LE(data, 75)
        slot   == readU64LE(data, 83)
    IN  IF ~season.ok THEN season
        ELSE IF ~points.ok THEN points
        ELSE IF ~slot.ok THEN slot
        ELSE [ok |-> TRUE,
              version |-> data[9],
              user |-> subarray(data, 41, 73),
              season |-> season.val,
              points |-> points.val,
              lastUpdateSlot |-> slot.val]

\* isRepNewLayout(raw) ? decodeReputationNewLayout(raw) : await decodeReputation(raw)
decodeRepByLength(cache, raw) ==
    IF isRepNewLayout(raw) THEN decodeReputationNewLayout(raw) ELSE decodeReputation(cache, raw)

----------------------------------------------------------------------------
(* Account images as the on-chain program lays them out (the offsets the     *)
(* decoders read), used to populate the collaborator.                       *)

ReputationConfigBytes(daoId, authority, repMint, currentSeason, decayBps) ==
    Sha256First8("account:ReputationConfig") \o <<1>> \o daoId \o authority \o repMint
        \o u16le(currentSeason) \o u16le(decayBps) \o <<255>> \o Zeros(3)

\* legacy layout, 64 bytes
ReputationOldBytes(user, season, points, slot) ==
    Sha256First8("account:Reputation") \o <<1>> \o user \o u16le(season)
        \o u64le(points) \o u64le(slot) \o <<255>> \o Zeros(4)

\* current layout, 92 bytes
ReputationNewBytes(owner, user, season, points, slot) ==
    Sha256First8("account:Reputation") \o <<1>> \o owner \o user \o u16le(season)
        \o u64le(points) \o u64le(slot) \o <<255>>

\* a Reputation record: the fields the program stores
RepRecord(version, user, season, points, lastUpdateSlot, bump) ==
    [version |-> version, user |-> user, season |-> season, points |-> points,
     lastUpdateSlot |-> lastUpdateSlot, bump |-> bump]

\* the record at the legacy offsets: version 8, user 9, season 41, points 43,
\* slot 51, bump 59; 64 bytes
layoutOld(rec) ==
    Sha256First8("account:Reputation") \o <<rec.version>> \o rec.user \o u16le(rec.season)
        \o u64le(rec.points) \o u64le(rec.lastUpdateSlot) \o <<rec.bump>> \o Zeros(4)

\* the record at the current offsets: version 8, owner 9, user 41, season 73,
\* points 75, slot 83, bump 91; 92 bytes
layoutNew(owner, rec) ==
    Sha256First8("account:Reputation") \o <<rec.version>> \o owner \o rec.user
        \o u16le(rec.season) \o u64le(rec.points) \o u64le(rec.lastUpdateSlot) \o <<rec.bump>>

\* a ProjectMetadata image: version 8, dao 9, declared string length 41, the
\* bytes that follow it
ProjectMetadataBytes(daoId, declared, rest) ==
    Sha256First8("account:ProjectMetadata") \o <<1>> \o daoId \o declared \o rest

----------------------------------------------------------------------------
(* fetchReputationsForDaoSeason *)

DefaultLimit == 50000
NewSliceLen == 92
OldSliceLen == 80

\* memcmp filter of getProgramAccounts: the account holds `bytes` at `offset`
memcmp(data, offset, bytes) ==
    /\ offset + Len(bytes) <= Len(data)
    /\ subarray(data, offset, offset + Len(bytes)) = bytes

\* newLayoutCfg.filters: discriminator, configPda at 9, season at 73
newLayoutFilter(data, disc, configPda, seasonBytes) ==
    /\ memcmp(data, 0, disc)
    /\ memcmp(data, 9, configPda)
    /\ memcmp(data, 73, seasonBytes)

\* oldLayoutCfg.filters: discriminator, season at 41
oldLayoutFilter(data, disc, seasonBytes) ==
    /\ memcmp(data, 0, disc)
    /\ memcmp(data, 41, seasonBytes)

\* dataSlice { offset: 0, length }: what a query returns of an account
Hit(acct, sliceLen) == [pubkey |-> acct.pubkey, data |-> subarray(acct.data, 0, sliceLen)]

Rejected == [status |-> "rejected", value |-> <<>>]
Pending == [status |-> "pending", value |-> <<>>]
Fulfilled(hits) == [status |-> "fulfilled", value |-> hits]

\* the results in the order the responses arrived
allSettled_ArrivalOrder(newQuery, oldQuery, first) ==
    IF first = "old" THEN <<oldQuery, newQuery>> ELSE <<newQuery, oldQuery>>

\* Promise.allSettled([newQuery, oldQuery]): the results in the order of the
\* array passed in, whichever settled first
allSettled(newQuery, oldQuery, first) == <<newQuery, oldQuery>>

\* Promise.all in place of Promise.allSettled: the await throws on a rejection
allSettledThrows_LikeAll(newQuery, oldQuery) ==
    newQuery.status = "rejected" \/ oldQuery.status = "rejected"

\* await Promise.allSettled(...) never throws, whatever the two queries did
allSettledThrows(newQuery, oldQuery) == FALSE

\* Promise.all in place of Promise.allSettled: one failure loses both results
MergeSettled_AllOrNothing(newHits, oldHits) ==
    IF newHits.status = "fulfilled" /\ oldHits.status = "fulfilled"
    THEN newHits.value \o oldHits.value
    ELSE <<>>

\* const merged = [...(newHits fulfilled ? value : []), ...(oldHits fulfilled ? value : [])]
MergeSettled(newHits, oldHits) ==
    (IF newHits.status = "fulfilled" THEN newHits.value ELSE <<>>)
        \o (IF oldHits.status = "fulfilled" THEN oldHits.value ELSE <<>>)

RECURSIVE byPkFrom(_, _)
byPkFrom(merged, i) ==
    IF i > Len(merged) THEN <<>>
    ELSE LET pk == merged[i].pubkey
             first == \A j \in 1..(i - 1) : merged[j].pubkey # pk
             last == CHOOSE j \in i..Len(merged) :
                        /\ merged[j].pubkey = pk
                        /\ \A k \in (j + 1)..Len(merged) : merged[k].pubkey # pk
         IN  (IF first THEN <<merged[last]>> ELSE <<>>) \o byPkFrom(merged, i + 1)

\* for (const a of merged) byPk.set(a.pubkey.toBase58(), a); byPk.values():
\* keys in order of first insertion, each with the value set last
byPkValues(merged) == byPkFrom(merged, 1)

\* one iteration of the verification loop: <<row>> when pushed, <<>> when skipped
verifyCandidate(cache, a, configPda, season, programId) ==
    LET raw == a.data
        disc == accountDiscriminator(cache, "Reputation")
    IN  IF Len(raw) < 8 THEN <<>>
        ELSE IF ~u8eq(subarray(raw, 0, 8), disc) THEN <<>>
        ELSE LET decoded == decodeRepByLength(cache, raw)
             IN  IF ~decoded.ok THEN <<>>
                 ELSE LET expected == getReputationPda(configPda, decoded.user, season, programId)[1]
                      IN  IF expected # a.pubkey THEN <<>>
                          ELSE <<[pubkey |-> a.pubkey,
                                  user |-> decoded.user,
                                  season |-> decoded.season,
                                  points |-> decoded.points,
                                  lastUpdateSlot |-> decoded.lastUpdateSlot]>>

RECURSIVE verifyFrom(_, _, _, _, _, _)
verifyFrom(cache, cands, i, configPda, season, programId) ==
    IF i > Len(cands) THEN <<>>
    ELSE verifyCandidate(cache, cands[i], configPda, season, programId)
            \o verifyFrom(cache, cands, i + 1, configPda, season, programId)

\* the comparator with its sign turned: ascending by points
RECURSIVE insertRow_Asc(_, _, _)
insertRow_Asc(sorted, r, i) ==
    IF i > Len(sorted) THEN sorted \o <<r>>
    ELSE IF BigCmp(r.points, sorted[i].points) = -1
         THEN SubSeq(sorted, 1, i - 1) \o <<r>> \o SubSeq(sorted, i, Len(sorted))
         ELSE insertRow_Asc(sorted, r, i + 1)

\* insert r behind every row that does not sort after it (stable)
RECURSIVE insertRow(_, _, _)
insertRow(sorted, r, i) ==
    IF i > Len(sorted) THEN sorted \o <<r>>
    ELSE IF BigCmp(r.points, sorted[i].points) = 1
         THEN SubSeq(sorted, 1, i - 1) \o <<r>> \o SubSeq(sorted, i, Len(sorted))
         ELSE insertRow(sorted, r, i + 1)

RECURSIVE sortFrom(_, _, _)
sortFrom(out, i, acc) ==
    IF i > Len(out) THEN acc ELSE sortFrom(out, i + 1, insertRow(acc, out[i], 1))

\* out.sort((a, b) => a.points === b.points ? 0 : a.points > b.points ? -1 : 1)
sortByPointsDesc(out) == sortFrom(out, 1, <<>>)

\* out.slice(0, limit), limit >= 0
slice0(out, limit) == IF limit >= Len(out) THEN out ELSE SubSeq(out, 1, limit)

\* the part of the call after the two queries have settled (lines 688-731)
reconcile(cache, newHits, oldHits, daoId, season, limit, programId) ==
    LET configPda == getConfigPda(daoId, programId)[1]
        merged == MergeSettled(newHits, oldHits)
        cands == byPkValues(merged)
        out == verifyFrom(cache, cands, 1, configPda, season, programId)
    IN  slice0(sortByPointsDesc(out), limit)

----------------------------------------------------------------------------
(* The collaborator's accounts for the season scan *)

Dao1 == Key(1, 1)
Dao2 == Key(2, 1)
UserA == Key(10, 1)
UserB == Key(11, 1)
UserC == Key(3, 0)     \* its first two bytes are u16le(3)
UserD == Key(12, 1)
UserE == Key(13, 1)
Authority == Key(20, 1)
Payer == Key(21, 1)

Cfg1 == getConfigPda(Dao1, VINE_REP_PROGRAM_ID)[1]
Cfg2 == getConfigPda(Dao2, VINE_REP_PROGRAM_ID)[1]

RepAddr(user, season) == getReputationPda(Cfg1, user, season, VINE_REP_PROGRAM_ID)[1]

\* legacy layout, season 3, at its derived address
AcctOld == [pubkey |-> RepAddr(UserA, 3),
            data |-> ReputationOldBytes(UserA, 3, BigOf(5), BigOf(100))]
\* current layout, season 3, at its derived address
AcctNew == [pubkey |-> RepAddr(UserB, 3),
            data |-> ReputationNewBytes(Cfg1, UserB, 3, BigOf(9), BigOf(101))]
\* current layout, season 3, at its derived address; the user key starts with
\* the bytes of season 3, so the legacy filter (season at 41) matches it too
AcctBoth == [pubkey |-> RepAddr(UserC, 3),
             data |-> ReputationNewBytes(Cfg1, UserC, 3, BigOf(9), BigOf(102))]
\* current layout whose bytes say season 7, at the address derived for season 3
AcctSeason7 == [pubkey |-> RepAddr(UserD, 3),
                data |-> ReputationNewBytes(Cfg1, UserD, 7, BigOf(5), BigOf(103))]
\* current layout, well formed, at an address that is not its derived address
AcctMisplaced == [pubkey |-> Key(99, 9),
                  data |-> ReputationNewBytes(Cfg1, UserE, 3, BigOf(4), BigOf(104))]
\* the Reputation discriminator and too little behind it
AcctShort == [pubkey |-> RepAddr(UserE, 3),
              data |-> Sha256First8("account:Reputation") \o Zeros(12)]

Pool == {AcctOld, AcctNew, AcctBoth, AcctSeason7, AcctMisplaced, AcctShort}

MaxHits == 2

\* what a getProgramAccounts call may answer: up to MaxHits hits, any accounts
\* of the pool in any order (the filters need not be honoured), each cut to
\* the dataSlice asked for
Responses(sliceLen) ==
    UNION {[1..n -> {Hit(a, sliceLen) : a \in Pool}] : n \in 0..MaxHits}

\* the calls made: season 3 with and without a limit, and a season beyond 16 bits
FetchRequests == {[season |-> 3, limit |-> DefaultLimit],
                  [season |-> 3, limit |-> 1],
                  [season |-> 65539, limit |-> DefaultLimit]}

NoArgs == [season |-> 0, limit |-> 0]

FetchCall(args) ==
    /\ fPc = "idle"
    /\ fPc' = "pending"
    /\ fArgs' = args
    /\ discCache' = cachePut(discCache, accountPreimage("Reputation"))
    /\ UNCHANGED <<newSettled, oldSettled, fFirst, fResult, addVars, ixVars>>

\* the current-layout query settles: fulfilled with hits, or rejected
SettleNew(outcome) ==
    /\ fPc = "pending"
    /\ newSettled.status = "pending"
    /\ newSettled' = outcome
    /\ fFirst' = IF oldSettled.status = "pending" THEN "new" ELSE fFirst
    /\ UNCHANGED <<discCache, fPc, fArgs, oldSettled, fResult, addVars, ixVars>>

\* the legacy-layout query settles
SettleOld(outcome) ==
    /\ fPc = "pending"
    /\ oldSettled.status = "pending"
    /\ oldSettled' = outcome
    /\ fFirst' = IF newSettled.status = "pending" THEN "old" ELSE fFirst
    /\ UNCHANGED <<discCache, fPc, fArgs, newSettled, fResult, addVars, ixVars>>

\* Promise.allSettled resolves; merge, de-dupe, verify, sort, slice, return
FetchFinish ==
    /\ fPc = "pending"
    /\ newSettled.status # "pending"
    /\ oldSettled.status # "pending"
    /\ IF allSettledThrows(newSettled, oldSettled)
       THEN /\ fResult' = <<>>
            /\ fPc' = "threw"
       ELSE /\ LET settled == allSettled(newSettled, oldSettled, fFirst)
               IN  fResult' = reconcile(discCache, settled[1], settled[2], Dao1,
                                        fArgs.season, fArgs.limit, VINE_REP_PROGRAM_ID)
            /\ fPc' = "done"
    /\ UNCHANGED <<discCache, fArgs, newSettled, oldSettled, fFirst, addVars, ixVars>>

InitFetchVars ==
    /\ fPc = "idle"
    /\ fArgs = NoArgs
    /\ newSettled = Pending
    /\ oldSettled = Pending
    /\ fFirst = "none"
    /\ fResult = <<>>

\* getAccountInfo answering null
NoAccount == [exists |-> FALSE, data |-> <<>>]
AccountInfo(data) == [exists |-> TRUE, data |-> data]

\* the Reputation account on chain: whether it exists, its bytes, and the
\* layout generation the program writes it in
NoRep(layout) == [exists |-> FALSE, layout |-> layout, data |-> <<>>]

InitAddVars ==
    /\ cfgAccount = NoAccount
    /\ repAccount = NoRep("old")
    /\ repInitial = NoRep("old")
    /\ calls = <<>>

IxThrew(err) ==
    [ok |-> FALSE, err |-> err, configPda |-> <<>>, repPdas |-> <<>>,
     programId |-> <<>>, keys |-> <<>>, data |-> <<>>]

\* what a builder returns: the instruction and the addresses it derived
IxBuilt(configPda, repPdas, programId, keys, data) ==
    [ok |-> TRUE, err |-> <<>>, configPda |-> configPda, repPdas |-> repPdas,
     programId |-> programId, keys |-> keys, data |-> data]

IxArgs(name, daoId, number) == [name |-> name, daoId |-> daoId, number |-> number]

InitIxVars ==
    /\ ixCall = IxArgs("none", <<>>, 0)
    /\ ixOut = IxThrew(<<"none">>)

InitFetch ==
    /\ discCache = <<>>
    /\ InitFetchVars
    /\ InitAddVars
    /\ InitIxVars

NextFetch ==
    \/ \E args \in FetchRequests : FetchCall(args)
    \/ \E hits \in Responses(NewSliceLen) : SettleNew(Fulfilled(hits))
    \/ SettleNew(Rejected)
    \/ \E hits \in Responses(OldSliceLen) : SettleOld(Fulfilled(hits))
    \/ SettleOld(Rejected)
    \/ FetchFinish

SpecFetch == InitFetch /\ [][NextFetch]_vars


----------------------------------------------------------------------------
(* buildAddReputationPointsIx, buildAddReputationIx, buildResetReputationIx *)

Meta(pubkey, isSigner, isWritable) ==
    [pubkey |-> pubkey, isSigner |-> isSigner, isWritable |-> isWritable]

Threw(err) ==
    [ok |-> FALSE, err |-> err, season |-> 0, configPda |-> <<>>, repPda |-> <<>>,
     programId |-> <<>>, keys |-> <<>>, data |-> <<>>]

NotReturned == Threw(<<"pending">>)

\* the value the three builders return
Built(season, configPda, repPda, programId, keys, data) ==
    [ok |-> TRUE, err |-> <<>>, season |-> season, configPda |-> configPda,
     repPda |-> repPda, programId |-> programId, keys |-> keys, data |-> data]

\* keys of buildAddReputationIx / buildAddReputationPointsIx
addReputationKeys(configPda, authority, user, repPda, payer) ==
    <<Meta(configPda, FALSE, FALSE), Meta(authority, TRUE, FALSE),
      Meta(user, FALSE, FALSE), Meta(repPda, FALSE, TRUE),
      Meta(payer, TRUE, TRUE), Meta(SystemProgramId, FALSE, FALSE)>>

\* keys of a reset with a payer of its own, the model's Payer
resetReputationKeys_Payer(configPda, authority, user, repPda) ==
    <<Meta(configPda, FALSE, FALSE), Meta(authority, TRUE, FALSE),
      Meta(user, FALSE, FALSE), Meta(repPda, FALSE, TRUE),
      Meta(Key(21, 1), TRUE, TRUE), Meta(SystemProgramId, FALSE, FALSE)>>

\* keys of buildResetReputationIx: the authority stands where the payer does
resetReputationKeys(configPda, authority, user, repPda) ==
    <<Meta(configPda, FALSE, FALSE), Meta(authority, TRUE, FALSE),
      Meta(user, FALSE, FALSE), Meta(repPda, FALSE, TRUE),
      Meta(authority, TRUE, TRUE), Meta(SystemProgramId, FALSE, FALSE)>>

\* a mismatch test that compares the seasons as 16-bit values
seasonMismatch_Masked(season, cfgSeason) == Mask16(season) # Mask16(cfgSeason)

\* season !== cfgSeason
seasonMismatch(season, cfgSeason) == season # cfgSeason

SeasonMismatchError(season, cfgSeason) ==
    <<"SeasonMismatch (client): provided season=", season,
      " but config.currentSeason=", cfgSeason>>

\* a missing Config left to the decoder
configNotFound_Ignored(ai) == FALSE

\* !ai?.data
configNotFound(ai) == ~ai.exists

ConfigNotFoundError == <<"Config PDA not found for this DAO.">>

\* args.season == null ? cfgSeason : Number(args.season)
seasonOf(call, cfgSeason) == IF call.hasSeason THEN call.season ELSE cfgSeason

\* buildAddReputationPointsIx from the Config response to its return, for a
\* given args.payer
addPointsWith(cache, call, ai, payer) ==
    LET programId == VINE_REP_PROGRAM_ID
        disc == ixDiscriminator(cache, "addReputation")
        data == disc \o u64le(call.amount)
        configPda == getConfigPda(Dao1, programId)[1]
    IN  IF configNotFound(ai) THEN Threw(ConfigNotFoundError)
        ELSE LET cfg == decodeReputationConfig(cache, ai.data) IN
             IF ~cfg.ok THEN Threw(<<cfg.err>>)
             ELSE LET cfgSeason == cfg.currentSeason
                      season == seasonOf(call, cfgSeason)
                  IN  IF seasonMismatch(season, cfgSeason)
                      THEN Threw(SeasonMismatchError(season, cfgSeason))
                      ELSE LET repPda == getReputationPda(configPda, UserA, season, programId)[1]
                           IN  Built(season, configPda, repPda, programId,
                                     addReputationKeys(configPda, Authority, UserA, repPda, payer),
                                     data)

\* the calls of the model pass Payer
addPointsAfterConfig(cache, call, ai) == addPointsWith(cache, call, ai, Payer)

\* buildResetReputationIx from the Config response to its return
resetAfterConfig(cache, call, ai) ==
    LET programId == VINE_REP_PROGRAM_ID
        disc == ixDiscriminator(cache, "addReputation")
        configPda == getConfigPda(Dao1, programId)[1]
    IN  IF configNotFound(ai) THEN Threw(ConfigNotFoundError)
        ELSE LET cfg == decodeReputationConfig(cache, ai.data) IN
             IF ~cfg.ok THEN Threw(<<cfg.err>>)
             ELSE LET cfgSeason == cfg.currentSeason IN
                  IF cfgSeason < 0 \/ cfgSeason > 65535
                  THEN Threw(<<"Invalid config.currentSeason: ", cfgSeason>>)
                  ELSE LET season == seasonOf(call, cfgSeason) IN
                       IF seasonMismatch(season, cfgSeason)
                       THEN Threw(SeasonMismatchError(season, cfgSeason))
                       ELSE LET repPda == getReputationPda(configPda, UserA, season, programId)[1]
                                nextTotal == BigOf(0)
                            IN  Built(season, configPda, repPda, programId,
                                      resetReputationKeys(configPda, Authority, UserA, repPda),
                                      disc \o u64le(nextTotal))

\* buildAddReputationIx from the Config response to the Reputation read: an
\* error, or the season and addresses the call goes on with (data not final)
addAfterConfig(cache, call, ai) ==
    LET programId == VINE_REP_PROGRAM_ID
        disc == ixDiscriminator(cache, "addReputation")
        configPda == getConfigPda(Dao1, programId)[1]
    IN  IF configNotFound(ai) THEN Threw(ConfigNotFoundError)
        ELSE LET cfg == decodeReputationConfig(cache, ai.data) IN
             IF ~cfg.ok THEN Threw(<<cfg.err>>)
             ELSE LET cfgSeason == cfg.currentSeason IN
                  IF cfgSeason < 0 \/ cfgSeason > 65535
                  THEN Threw(<<"Invalid config.currentSeason: ", cfgSeason>>)
                  ELSE LET season == seasonOf(call, cfgSeason) IN
                       IF seasonMismatch(season, cfgSeason)
                       THEN Threw(SeasonMismatchError(season, cfgSeason))
                       ELSE LET repPda == getReputationPda(configPda, UserA, season, programId)[1]
                            IN  Built(season, configPda, repPda, programId,
                                      addReputationKeys(configPda, Authority, UserA, repPda, Payer),
                                      disc \o u64le(call.amount))

\* buildAddReputationIx from the Reputation response to its return
addAfterRep(cache, call, repAi) ==
    LET disc == ixDiscriminator(cache, "addReputation")
        sofar == call.out
    IN  IF repAi.exists /\ Len(repAi.data) # 0
        THEN LET rep == decodeReputation(cache, repAi.data) IN
             IF ~rep.ok THEN Threw(<<rep.err>>)
             ELSE LET nextTotal == BigAdd(rep.points, call.amount)
                  IN  [sofar EXCEPT !.data = disc \o u64le(nextTotal)]
        ELSE LET nextTotal == BigAdd(BigOf(0), call.amount)
             IN  [sofar EXCEPT !.data = disc \o u64le(nextTotal)]

(* The collaborator and the on-chain program, as the builders see them *)

\* where the Reputation account of (Dao1, UserA) for the current season lives
RepAccountAddr == RepAddr(UserA, 3)

\* conn.getAccountInfo(address)
getAccountInfo(address) ==
    IF address = Cfg1 THEN cfgAccount
    ELSE IF address = RepAccountAddr /\ repAccount.exists THEN AccountInfo(repAccount.data)
    ELSE NoAccount

U64Max == <<255, 255, 255, 255, 255, 255, 255, 255, 0>>

\* the points an account stores, at the offset of its own layout
StoredTotal(acct) ==
    IF ~acct.exists THEN BigOf(0)
    ELSE IF acct.layout = "old" THEN readU64LE(acct.data, 43).val
    ELSE readU64LE(acct.data, 75).val

\* the program executing an add_reputation instruction: the stored total
\* becomes the value the instruction carries; a missing account is created
setTotal(acct, total) ==
    IF ~acct.exists
    THEN [exists |-> TRUE, layout |-> acct.layout,
          data |-> IF acct.layout = "old"
                   THEN ReputationOldBytes(UserA, 3, total, BigOf(0))
                   ELSE ReputationNewBytes(Cfg1, UserA, 3, total, BigOf(0))]
    ELSE LET at == IF acct.layout = "old" THEN 43 ELSE 75
         IN  [acct EXCEPT !.data = SubSeq(acct.data, 1, at) \o u64le(total)
                                     \o SubSeq(acct.data, at + 9, Len(acct.data))]

MaxCalls == 2

ConfigAccounts ==
    {NoAccount,
     AccountInfo(ReputationConfigBytes(Dao1, Authority, Key(30, 1), 3, 100)),
     AccountInfo(AcctOld.data)}

RepAccounts ==
    {NoRep("old"), NoRep("new"),
     [exists |-> TRUE, layout |-> "old",
      data |-> ReputationOldBytes(UserA, 3, BigOf(5), BigOf(100))],
     [exists |-> TRUE, layout |-> "new",
      data |-> ReputationNewBytes(Cfg1, UserA, 3, BigOf(5), BigOf(100))],
     [exists |-> TRUE, layout |-> "old",
      data |-> ReputationOldBytes(UserA, 3, U64Max, BigOf(100))]}

Args(fn, hasSeason, season, amount) ==
    [fn |-> fn, hasSeason |-> hasSeason, season |-> season, amount |-> amount]

\* the builder calls made: user UserA of Dao1, authority and payer fixed
BuilderArgs ==
    {Args("buildAddReputationIx", FALSE, 0, BigOf(1)),
     Args("buildAddReputationIx", FALSE, 0, BigOf(2)),
     Args("buildAddReputationIx", TRUE, 3, BigOf(1)),
     Args("buildAddReputationIx", TRUE, 5, BigOf(1)),
     Args("buildAddReputationIx", TRUE, 65539, BigOf(2)),
     Args("buildAddReputationPointsIx", FALSE, 0, BigOf(2)),
     Args("buildAddReputationPointsIx", TRUE, 5, BigOf(2)),
     Args("buildAddReputationPointsIx", TRUE, 65539, BigOf(1)),
     Args("buildResetReputationIx", FALSE, 0, BigOf(0)),
     Args("buildResetReputationIx", TRUE, 3, BigOf(0)),
     Args("buildResetReputationIx", TRUE, 5, BigOf(0))}

\* a builder is called: it resolves the discriminator and asks for the Config
BuilderCall(args) ==
    /\ Len(calls) < MaxCalls
    /\ calls' = Append(calls,
                  [fn |-> args.fn, hasSeason |-> args.hasSeason, season |-> args.season,
                   amount |-> args.amount, pc |-> "awaitConfig", reads |-> <<>>,
                   out |-> NotReturned, applied |-> FALSE])
    /\ discCache' = cachePut(discCache, ixPreimage("addReputation"))
    /\ UNCHANGED <<cfgAccount, repAccount, repInitial, fetchVars, ixVars>>

\* the Reputation account read whatever came of the Config
readsReputation_Always(fn, out) == fn = "buildAddReputationIx"

\* whether the call goes on to `await conn.getAccountInfo(repPda)`: only
\* buildAddReputationIx has that read, behind every throw of lines 809-822
readsReputation(fn, out) == out.ok /\ fn = "buildAddReputationIx"

\* getAccountInfo(configPda) answers; the builder runs on to its next await
\* (buildAddReputationIx: the Reputation read) or to its return or throw
ConfigResponse(c) ==
    /\ calls[c].pc = "awaitConfig"
    /\ LET call == calls[c]
           configPda == getConfigPda(Dao1, VINE_REP_PROGRAM_ID)[1]
           ai == getAccountInfo(configPda)
           out == CASE call.fn = "buildAddReputationIx" -> addAfterConfig(discCache, call, ai)
                    [] call.fn = "buildAddReputationPointsIx" -> addPointsAfterConfig(discCache, call, ai)
                    [] call.fn = "buildResetReputationIx" -> resetAfterConfig(discCache, call, ai)
           more == readsReputation(call.fn, out)
       IN  /\ calls' = [calls EXCEPT ![c] =
                          [call EXCEPT !.reads = Append(call.reads, configPda),
                                       !.out = out,
                                       !.pc = IF more THEN "awaitRep" ELSE "done"]]
           /\ discCache' = IF configNotFound(ai) THEN discCache
                           ELSE cachePut(discCache, accountPreimage("ReputationConfig"))
    /\ UNCHANGED <<cfgAccount, repAccount, repInitial, fetchVars, ixVars>>

\* getAccountInfo(repPda) answers; buildAddReputationIx returns or throws
RepResponse(c) ==
    /\ calls[c].pc = "awaitRep"
    /\ LET call == calls[c]
           repAi == getAccountInfo(call.out.repPda)
       IN  /\ calls' = [calls EXCEPT ![c] =
                          [call EXCEPT !.reads = Append(call.reads, call.out.repPda),
                                       !.out = addAfterRep(discCache, call, repAi),
                                       !.pc = "done"]]
           /\ discCache' = IF repAi.exists /\ Len(repAi.data) # 0
                           THEN cachePut(discCache, accountPreimage("Reputation"))
                           ELSE discCache
    /\ UNCHANGED <<cfgAccount, repAccount, repInitial, fetchVars, ixVars>>

\* the instruction a builder returned is submitted and executed on chain
ApplyIx(c) ==
    /\ calls[c].pc = "done"
    /\ calls[c].out.ok
    /\ ~calls[c].applied
    /\ calls[c].out.repPda = RepAccountAddr
    /\ repAccount' = setTotal(repAccount, SubSeq(calls[c].out.data, 9, 16) \o <<0>>)
    /\ calls' = [calls EXCEPT ![c].applied = TRUE]
    /\ UNCHANGED <<discCache, cfgAccount, repInitial, fetchVars, ixVars>>

InitAdd ==
    /\ discCache = <<>>
    /\ InitFetchVars
    /\ InitIxVars
    /\ cfgAccount \in ConfigAccounts
    /\ repAccount \in RepAccounts
    /\ repInitial = repAccount
    /\ calls = <<>>

NextAdd ==
    \/ \E args \in BuilderArgs : BuilderCall(args)
    \/ \E c \in 1..Len(calls) : ConfigResponse(c)
    \/ \E c \in 1..Len(calls) : RepResponse(c)
    \/ \E c \in 1..Len(calls) : ApplyIx(c)

SpecAdd == InitAdd /\ [][NextAdd]_vars


----------------------------------------------------------------------------
(* Where the discriminator calls and all the builders are explored together  *)
(* the cache is let grow to MaxCached preimages.                             *)

MaxCached == 3

\* the cache, with these preimages added, stays within the cap
CacheHolds(preimages) == Cardinality(DOMAIN discCache \cup preimages) <= MaxCached

CacheRoom(preimage) == CacheHolds({preimage})

----------------------------------------------------------------------------
(* Builders that read nothing: initialize-config, set-season, set-decay,    *)
(* close-reputation, transfer-reputation.  args.number is the season or the *)
(* decay rate; the keys passed in are fixed (Authority, Payer, UserA, ...). *)

DecayMax == 10000

buildInitializeConfigIx(cache, args) ==
    LET programId == VINE_REP_PROGRAM_ID
        disc == ixDiscriminator(cache, "initializeConfig")
        repMint == Key(30, 1)
        data == disc \o args.daoId \o repMint \o u16le(Mask16(args.number))
        configPda == getConfigPda(args.daoId, programId)[1]
    IN  IxBuilt(configPda, <<>>, programId,
                <<Meta(configPda, FALSE, TRUE), Meta(Authority, FALSE, FALSE),
                  Meta(Payer, TRUE, TRUE), Meta(SystemProgramId, FALSE, FALSE)>>,
                data)

buildSetSeasonIx(cache, args) ==
    LET programId == VINE_REP_PROGRAM_ID
        disc == ixDiscriminator(cache, "setSeason")
        data == disc \o u16le(Mask16(args.number))
        configPda == getConfigPda(args.daoId, programId)[1]
    IN  IxBuilt(configPda, <<>>, programId,
                <<Meta(configPda, FALSE, TRUE), Meta(Authority, TRUE, FALSE)>>,
                data)

\* the range test with the upper end excluded
decayOutOfRange_Exclusive(decay) == decay < 0 \/ decay >= DecayMax

\* !Number.isFinite(decay) || decay < 0 || decay > 10_000, on integers
decayOutOfRange(decay) == decay < 0 \/ decay > DecayMax

buildSetDecayBpsIx(cache, args) ==
    LET programId == VINE_REP_PROGRAM_ID
        disc == ixDiscriminator(cache, "setDecayBps")
        decay == args.number
    IN  IF decayOutOfRange(decay) THEN IxThrew(<<"decayBps must be 0..=10000">>)
        ELSE LET data == disc \o u16le(Mask16(decay))
                 configPda == getConfigPda(args.daoId, programId)[1]
             IN  IxBuilt(configPda, <<>>, programId,
                         <<Meta(configPda, FALSE, TRUE), Meta(Authority, TRUE, FALSE)>>,
                         data)

buildCloseReputationIx(cache, args) ==
    LET programId == VINE_REP_PROGRAM_ID
        disc == ixDiscriminator(cache, "closeReputation")
        data == disc \o u16le(Mask16(args.number))
        configPda == getConfigPda(args.daoId, programId)[1]
        reputationPda == getReputationPda(configPda, UserA, args.number, programId)[1]
        recipient == Payer
    IN  IxBuilt(configPda, <<reputationPda>>, programId,
                <<Meta(configPda, FALSE, FALSE), Meta(Authority, TRUE, FALSE),
                  Meta(UserA, FALSE, FALSE), Meta(reputationPda, FALSE, TRUE),
                  Meta(recipient, FALSE, TRUE)>>,
                data)

buildTransferReputationIx(cache, args) ==
    LET programId == VINE_REP_PROGRAM_ID
        disc == ixDiscriminator(cache, "transferReputation")
        data == disc
        configPda == getConfigPda(args.daoId, programId)[1]
        repFrom == getReputationPda(configPda, UserA, args.number, programId)[1]
        repTo == getReputationPda(configPda, UserB, args.number, programId)[1]
    IN  IxBuilt(configPda, <<repFrom, repTo>>, programId,
                <<Meta(configPda, FALSE, FALSE), Meta(Authority, TRUE, FALSE),
                  Meta(UserA, FALSE, FALSE), Meta(UserB, FALSE, FALSE),
                  Meta(repFrom, FALSE, TRUE), Meta(repTo, FALSE, TRUE),
                  Meta(Payer, TRUE, TRUE), Meta(SystemProgramId, FALSE, FALSE)>>,
                data)

\* season arguments: in range, the two ends, negative, beyond 16 bits
SeasonInputs == {-1, 0, 3, 65535, 65536, 65539}
\* decay arguments around both ends of 0..10000 and beyond 16 bits
DecayInputs == {-1, 0, 1, 3000, 9999, 10000, 10001, 65536, 75536}
IxDaos == {Dao1, Dao2}

InitializeConfigCall(daoId, season) ==
    LET args == IxArgs("buildInitializeConfigIx", daoId, season) IN
    /\ ixCall' = args
    /\ ixOut' = buildInitializeConfigIx(discCache, args)
    /\ discCache' = cachePut(discCache, ixPreimage("initializeConfig"))
    /\ UNCHANGED <<fetchVars, addVars>>

SetSeasonCall(daoId, season) ==
    LET args == IxArgs("buildSetSeasonIx", daoId, season) IN
    /\ ixCall' = args
    /\ ixOut' = buildSetSeasonIx(discCache, args)
    /\ discCache' = cachePut(discCache, ixPreimage("setSeason"))
    /\ UNCHANGED <<fetchVars, addVars>>

SetDecayBpsCall(daoId, decayBps) ==
    LET args == IxArgs("buildSetDecayBpsIx", daoId, decayBps) IN
    /\ ixCall' = args
    /\ ixOut' = buildSetDecayBpsIx(discCache, args)
    /\ discCache' = cachePut(discCache, ixPreimage("setDecayBps"))
    /\ UNCHANGED <<fetchVars, addVars>>

CloseReputationCall(daoId, season) ==
    LET args == IxArgs("buildCloseReputationIx", daoId, season) IN
    /\ ixCall' = args
    /\ ixOut' = buildCloseReputationIx(discCache, args)
    /\ discCache' = cachePut(discCache, ixPreimage("closeReputation"))
    /\ UNCHANGED <<fetchVars, addVars>>

TransferReputationCall(daoId, season) ==
    LET args == IxArgs("buildTransferReputationIx", daoId, season) IN
    /\ ixCall' = args
    /\ ixOut' = buildTransferReputationIx(discCache, args)
    /\ discCache' = cachePut(discCache, ixPreimage("transferReputation"))
    /\ UNCHANGED <<fetchVars, addVars>>

\* args.season left out: the property reads as undefined, and
\* getReputationPda seeds u16le(undefined & 0xffff), which is u16le(0)
UndefinedAnd0xffff == 0

\* buildTransferReputationIx called without a season
TransferReputationNoSeasonCall(daoId) ==
    LET args == [name |-> "buildTransferReputationIx", daoId |-> daoId,
                 number |-> UndefinedAnd0xffff, seasonOmitted |-> TRUE]
    IN  /\ ixCall' = args
        /\ ixOut' = buildTransferReputationIx(discCache, args)
        /\ discCache' = cachePut(discCache, ixPreimage("transferReputation"))
        /\ UNCHANGED <<fetchVars, addVars>>

PdaArgs(name, configPda, user, number) ==
    [name |-> name, configPda |-> configPda, user |-> user, number |-> number]

PdaConfigs == {Cfg1, Cfg2}
PdaUsers == {UserA, UserB}

\* getReputationPda called on its own: the seeds it passes on, and the
\* address and bump it returns
GetReputationPdaCall(configPda, user, season) ==
    LET pda == getReputationPda(configPda, user, season, VINE_REP_PROGRAM_ID) IN
    /\ ixCall' = PdaArgs("getReputationPda", configPda, user, season)
    /\ ixOut' = [ok |-> TRUE, seeds |-> reputationSeeds(configPda, user, season),
                 address |-> pda[1], bump |-> pda[2]]
    /\ UNCHANGED <<discCache, fetchVars, addVars>>

\* the collaborator holds some account, or none, at the Config address of Dao1
InitIx ==
    /\ discCache = <<>>
    /\ InitFetchVars
    /\ cfgAccount \in ConfigAccounts
    /\ repAccount = NoRep("old")
    /\ repInitial = NoRep("old")
    /\ calls = <<>>
    /\ InitIxVars

NextIx ==
    \/ \E d \in IxDaos, n \in SeasonInputs : InitializeConfigCall(d, n)
    \/ \E d \in IxDaos, n \in SeasonInputs : SetSeasonCall(d, n)
    \/ \E d \in IxDaos, n \in DecayInputs : SetDecayBpsCall(d, n)
    \/ \E d \in IxDaos, n \in SeasonInputs : CloseReputationCall(d, n)
    \/ \E d \in IxDaos, n \in SeasonInputs : TransferReputationCall(d, n)
    \/ \E d \in IxDaos : TransferReputationNoSeasonCall(d)
    \/ \E c \in PdaConfigs, u \in PdaUsers, n \in SeasonInputs : GetReputationPdaCall(c, u, n)

SpecIx == InitIx /\ [][NextIx]_vars

----------------------------------------------------------------------------
(* The decoders called on their own.  ixCall holds the decoder's name and    *)
(* its input (for a Reputation image also the record and the layout it was   *)
(* laid out in), ixOut what the decoder returned or threw.                   *)

DecArgs(name, layout, rec, data) ==
    [name |-> name, layout |-> layout, rec |-> rec, data |-> data]

\* fetch helpers return null for a missing account
Null == "null"

\* fetchReputation from the getAccountInfo response on
fetchReputation(cache, ai) ==
    IF ~ai.exists THEN Null ELSE decodeReputation(cache, ai.data)

\* 2^63, and a value with bytes on both sides of 0x80
BigHighBit == <<0, 0, 0, 0, 0, 0, 0, 128, 0>>
BigMixed == <<129, 255, 0, 128, 1, 2, 254, 200, 0>>

UserHigh == Key(200, 255)

RecUsers == {UserA, UserC, UserHigh}
RecSeasons == {0, 3, 255, 32768, 65535}
RecPoints == {BigOf(0), BigOf(5), BigHighBit, BigMixed, U64Max}
RecSlots == {BigOf(100), U64Max}

\* the records laid out: every user with every season, and every points value
\* with every slot
RepRecords ==
    {RepRecord(v, u, s, BigOf(5), BigOf(100), 255) :
        v \in {1, 200}, u \in RecUsers, s \in RecSeasons}
    \cup {RepRecord(1, UserA, 3, p, t, 7) : p \in RecPoints, t \in RecSlots}

RepLayouts == {"old", "new"}

RepImage(layout, rec) == IF layout = "old" THEN layoutOld(rec) ELSE layoutNew(Cfg1, rec)

ConfigImages ==
    {ReputationConfigBytes(Dao1, Authority, Key(30, 1), 3, 100),
     ReputationConfigBytes(Dao2, Payer, Key(31, 200), 65535, 10000),
     ReputationConfigBytes(Dao1, UserHigh, Key(30, 1), 32768, 0)}

\* Config buffers: whole images, images cut short at the lengths the decoder
\* tests, longer ones, and buffers that do not start with the discriminator
ConfigBuffers ==
    {subarray(b, 0, k) : b \in ConfigImages, k \in {0, 7, 8, 112, 113}}
    \cup {b \o Zeros(7) : b \in ConfigImages}
    \cup {<<0>> \o Tail(b) : b \in ConfigImages}
    \cup {subarray(<<0>> \o Tail(b), 0, k) : b \in ConfigImages, k \in {5, 20, 112}}
    \cup {AcctOld.data, AcctNew.data}

MetaDaos == {Dao1, Dao2}

\* what follows the dao in a ProjectMetadata image: the declared length and
\* the bytes behind it (string, bump, padding), fitting and not fitting
MetaTails ==
    {<<u32le(0), <<254>>>>,
     <<u32le(0), <<>>>>,
     <<u32le(2), <<104, 105, 254>>>>,
     <<u32le(2), <<104, 105>>>>,
     <<u32le(3), <<104, 105, 254>>>>,
     <<u32le(2), <<104, 105, 254, 9, 9, 9>>>>,
     <<u32le(2), <<195, 169, 253>>>>,
     <<u32le(1), <<195, 169>>>>,
     <<u32le(4), <<239, 187, 191, 104, 252>>>>,
     <<u32le(3), <<226, 130, 172, 251>>>>,
     <<u32le(256), <<104, 105, 254>>>>,
     <<<<255, 255, 255, 255>>, <<104, 105, 254>>>>,
     <<<<0, 0, 0, 128>>, <<104, 105, 254>>>>,
     <<<<2, 0, 0, 1>>, <<104, 105, 254>>>>}

MetaBuffers ==
    {ProjectMetadataBytes(d, t[1], t[2]) : d \in MetaDaos, t \in MetaTails}
    \cup {subarray(ProjectMetadataBytes(d, u32le(2), <<104, 105, 254>>), 0, k) :
            d \in MetaDaos, k \in {0, 7, 8, 20, 44, 45}}
    \cup {<<0>> \o Tail(ProjectMetadataBytes(Dao1, u32le(2), <<104, 105, 254>>)),
          AcctOld.data}

DecodeReputationCall(layout, rec) ==
    LET data == RepImage(layout, rec) IN
    /\ ixCall' = DecArgs("decodeReputation", layout, rec, data)
    /\ ixOut' = decodeReputation(discCache, data)
    /\ discCache' = cachePut(discCache, accountPreimage("Reputation"))
    /\ UNCHANGED <<fetchVars, addVars>>

\* the decoder chosen by the length of the buffer, as the season scan does
DecodeRepByLengthCall(layout, rec) ==
    LET data == RepImage(layout, rec) IN
    /\ ixCall' = DecArgs("decodeRepByLength", layout, rec, data)
    /\ ixOut' = decodeRepByLength(discCache, data)
    /\ discCache' = IF isRepNewLayout(data) THEN discCache
                    ELSE cachePut(discCache, accountPreimage("Reputation"))
    /\ UNCHANGED <<fetchVars, addVars>>

\* fetchReputation with the account read answered by an image, or by null
FetchReputationCall(exists, layout, rec) ==
    LET ai == IF exists THEN AccountInfo(RepImage(layout, rec)) ELSE NoAccount IN
    /\ ixCall' = DecArgs("fetchReputation", IF exists THEN layout ELSE "none", rec, ai.data)
    /\ ixOut' = fetchReputation(discCache, ai)
    /\ discCache' = IF exists THEN cachePut(discCache, accountPreimage("Reputation"))
                    ELSE discCache
    /\ UNCHANGED <<fetchVars, addVars>>

DecodeReputationConfigCall(data) ==
    /\ ixCall' = DecArgs("decodeReputationConfig", "none", <<>>, data)
    /\ ixOut' = decodeReputationConfig(discCache, data)
    /\ discCache' = cachePut(discCache, accountPreimage("ReputationConfig"))
    /\ UNCHANGED <<fetchVars, addVars>>

DecodeProjectMetadataCall(data) ==
    /\ ixCall' = DecArgs("decodeProjectMetadata", "none", <<>>, data)
    /\ ixOut' = decodeProjectMetadata(discCache, data)
    /\ discCache' = cachePut(discCache, accountPreimage("ProjectMetadata"))
    /\ UNCHANGED <<fetchVars, addVars>>

InitDecode ==
    /\ discCache = <<>>
    /\ InitFetchVars
    /\ InitAddVars
    /\ InitIxVars

NextDecode ==
    \/ \E l \in RepLayouts, r \in RepRecords : DecodeReputationCall(l, r)
    \/ \E l \in RepLayouts, r \in RepRecords : DecodeRepByLengthCall(l, r)
    \/ \E e \in BOOLEAN, l \in RepLayouts, r \in RepRecords : FetchReputationCall(e, l, r)
    \/ \E data \in ConfigBuffers : DecodeReputationConfigCall(data)
    \/ \E data \in MetaBuffers : DecodeProjectMetadataCall(data)

SpecDecode == InitDecode /\ [][NextDecode]_vars

----------------------------------------------------------------------------
(* Every builder, for its payload.  The builders that read the collaborator  *)
(* run from call to return here, their reads answered by the inputs.         *)

KeyArgs(name, daoId, key) == [name |-> name, daoId |-> daoId, key |-> key]
UriArgs(name, daoId, uri) == [name |-> name, daoId |-> daoId, uri |-> uri]
RunArgs(name, amount, cfgAi, repAi) ==
    [name |-> name, amount |-> amount, cfgAi |-> cfgAi, repAi |-> repAi]

buildUpsertProjectMetadataIx(cache, args) ==
    LET programId == VINE_REP_PROGRAM_ID
        disc == ixDiscriminator(cache, "upsertProjectMetadata")
        enc == encodeAnchorString(args.uri)
        data == disc \o enc.len \o enc.bytes
        configPda == getConfigPda(args.daoId, programId)[1]
        metaPda == getProjectMetaPda(args.daoId, programId)[1]
    IN  IxBuilt(configPda, <<>>, programId,
                <<Meta(configPda, FALSE, FALSE), Meta(metaPda, FALSE, TRUE),
                  Meta(Authority, TRUE, FALSE), Meta(Payer, TRUE, TRUE),
                  Meta(SystemProgramId, FALSE, FALSE)>>,
                data)

buildSetAuthorityIx(cache, args) ==
    LET programId == VINE_REP_PROGRAM_ID
        disc == ixDiscriminator(cache, "setAuthority")
        data == disc \o args.key
        configPda == getConfigPda(args.daoId, programId)[1]
    IN  IxBuilt(configPda, <<>>, programId,
                <<Meta(configPda, FALSE, TRUE), Meta(Authority, TRUE, FALSE)>>,
                data)

buildSetRepMintIx(cache, args) ==
    LET programId == VINE_REP_PROGRAM_ID
        disc == ixDiscriminator(cache, "setRepMint")
        data == disc \o args.key
        configPda == getConfigPda(args.daoId, programId)[1]
    IN  IxBuilt(configPda, <<>>, programId,
                <<Meta(configPda, FALSE, TRUE), Meta(Authority, TRUE, FALSE)>>,
                data)

\* args.key is the target
buildAdminCloseAnyIx(cache, args) ==
    LET programId == VINE_REP_PROGRAM_ID
        disc == ixDiscriminator(cache, "adminCloseAny")
        recipient == Payer
    IN  IxBuilt(<<>>, <<>>, programId,
                <<Meta(Authority, TRUE, FALSE), Meta(args.key, FALSE, TRUE),
                  Meta(recipient, FALSE, TRUE)>>,
                disc)

\* args.key is the recipient
buildCloseConfigIx(cache, args) ==
    LET programId == VINE_REP_PROGRAM_ID
        disc == ixDiscriminator(cache, "closeConfig")
        data == disc
        configPda == getConfigPda(args.daoId, programId)[1]
    IN  IxBuilt(configPda, <<>>, programId,
                <<Meta(configPda, FALSE, TRUE), Meta(Authority, TRUE, FALSE),
                  Meta(args.key, FALSE, TRUE)>>,
                data)

\* what a builder with reads returned, in the shape of ixOut
ToIxOut(out) ==
    IF out.ok THEN IxBuilt(out.configPda, <<out.repPda>>, out.programId, out.keys, out.data)
    ELSE IxThrew(out.err)

\* buildAddReputationIx from call to return
addReputationRun(cache, call, cfgAi, repAi) ==
    LET sofar == addAfterConfig(cache, call, cfgAi) IN
    IF ~sofar.ok THEN sofar
    ELSE addAfterRep(cache, [fn |-> call.fn, hasSeason |-> call.hasSeason,
                             season |-> call.season, amount |-> call.amount,
                             out |-> sofar], repAi)

\* the strings passed as metadataUri: empty, ASCII, two-, three- and four-byte
\* characters
PayloadUris == {<<>>, <<104, 105>>, <<104, 233>>, <<8364>>, <<128512, 97>>}
PayloadKeys == {UserB, UserHigh}
PayloadSeasons == {3, 65539}
PayloadDecays == {0, 10000, 10001}
PayloadAmounts == {BigOf(1), BigMixed}
PayloadConfigs == {NoAccount, AccountInfo(ReputationConfigBytes(Dao1, Authority, Key(30, 1), 3, 100))}
PayloadReps == {NoAccount, AccountInfo(ReputationOldBytes(UserA, 3, BigOf(5), BigOf(100)))}

\* the preimages a builder with reads puts in the cache
runPreimages(cfgAi, repAi) ==
    {ixPreimage("addReputation")}
    \cup (IF cfgAi.exists THEN {accountPreimage("ReputationConfig")} ELSE {})
    \cup (IF cfgAi.exists /\ repAi.exists THEN {accountPreimage("Reputation")} ELSE {})

RECURSIVE cachePutAll(_, _)
cachePutAll(cache, preimages) ==
    IF preimages = {} THEN cache
    ELSE LET p == CHOOSE q \in preimages : TRUE
         IN  cachePutAll(cachePut(cache, p), preimages \ {p})

UpsertProjectMetadataCall(daoId, uri) ==
    LET args == UriArgs("buildUpsertProjectMetadataIx", daoId, uri) IN
    /\ ixCall' = args
    /\ ixOut' = buildUpsertProjectMetadataIx(discCache, args)
    /\ discCache' = cachePut(discCache, ixPreimage("upsertProjectMetadata"))
    /\ UNCHANGED <<fetchVars, addVars>>

SetAuthorityCall(daoId, newAuthority) ==
    LET args == KeyArgs("buildSetAuthorityIx", daoId, newAuthority) IN
    /\ ixCall' = args
    /\ ixOut' = buildSetAuthorityIx(discCache, args)
    /\ discCache' = cachePut(discCache, ixPreimage("setAuthority"))
    /\ UNCHANGED <<fetchVars, addVars>>

SetRepMintCall(daoId, newRepMint) ==
    LET args == KeyArgs("buildSetRepMintIx", daoId, newRepMint) IN
    /\ ixCall' = args
    /\ ixOut' = buildSetRepMintIx(discCache, args)
    /\ discCache' = cachePut(discCache, ixPreimage("setRepMint"))
    /\ UNCHANGED <<fetchVars, addVars>>

AdminCloseAnyCall(target) ==
    LET args == KeyArgs("buildAdminCloseAnyIx", <<>>, target) IN
    /\ ixCall' = args
    /\ ixOut' = buildAdminCloseAnyIx(discCache, args)
    /\ discCache' = cachePut(discCache, ixPreimage("adminCloseAny"))
    /\ UNCHANGED <<fetchVars, addVars>>

CloseConfigCall(daoId, recipient) ==
    LET args == KeyArgs("buildCloseConfigIx", daoId, recipient) IN
    /\ ixCall' = args
    /\ ixOut' = buildCloseConfigIx(discCache, args)
    /\ discCache' = cachePut(discCache, ixPreimage("closeConfig"))
    /\ UNCHANGED <<fetchVars, addVars>>

AddReputationPointsRun(amount, cfgAi) ==
    LET call == Args("buildAddReputationPointsIx", FALSE, 0, amount) IN
    /\ CacheHolds(runPreimages(cfgAi, NoAccount))
    /\ ixCall' = RunArgs("buildAddReputationPointsIx", amount, cfgAi, NoAccount)
    /\ ixOut' = ToIxOut(addPointsAfterConfig(discCache, call, cfgAi))
    /\ discCache' = cachePutAll(discCache, runPreimages(cfgAi, NoAccount))
    /\ UNCHANGED <<fetchVars, addVars>>

ResetReputationRun(cfgAi) ==
    LET call == Args("buildResetReputationIx", FALSE, 0, BigOf(0)) IN
    /\ CacheHolds(runPreimages(cfgAi, NoAccount))
    /\ ixCall' = RunArgs("buildResetReputationIx", BigOf(0), cfgAi, NoAccount)
    /\ ixOut' = ToIxOut(resetAfterConfig(discCache, call, cfgAi))
    /\ discCache' = cachePutAll(discCache, runPreimages(cfgAi, NoAccount))
    /\ UNCHANGED <<fetchVars, addVars>>

AddReputationRun(amount, cfgAi, repAi) ==
    LET call == Args("buildAddReputationIx", FALSE, 0, amount) IN
    /\ CacheHolds(runPreimages(cfgAi, repAi))
    /\ ixCall' = RunArgs("buildAddReputationIx", amount, cfgAi, repAi)
    /\ ixOut' = ToIxOut(addReputationRun(discCache, call, cfgAi, repAi))
    /\ discCache' = cachePutAll(discCache, runPreimages(cfgAi, repAi))
    /\ UNCHANGED <<fetchVars, addVars>>

InitPayload ==
    /\ discCache = <<>>
    /\ InitFetchVars
    /\ InitAddVars
    /\ InitIxVars

NextPayload ==
    \/ \E n \in PayloadSeasons :
          CacheRoom(ixPreimage("initializeConfig")) /\ InitializeConfigCall(Dao1, n)
    \/ \E n \in PayloadSeasons :
          CacheRoom(ixPreimage("setSeason")) /\ SetSeasonCall(Dao1, n)
    \/ \E n \in PayloadDecays :
          CacheRoom(ixPreimage("setDecayBps")) /\ SetDecayBpsCall(Dao1, n)
    \/ \E n \in PayloadSeasons :
          CacheRoom(ixPreimage("closeReputation")) /\ CloseReputationCall(Dao1, n)
    \/ \E n \in PayloadSeasons :
          CacheRoom(ixPreimage("transferReputation")) /\ TransferReputationCall(Dao1, n)
    \/ \E u \in PayloadUris :
          CacheRoom(ixPreimage("upsertProjectMetadata")) /\ UpsertProjectMetadataCall(Dao1, u)
    \/ \E k \in PayloadKeys :
          CacheRoom(ixPreimage("setAuthority")) /\ SetAuthorityCall(Dao1, k)
    \/ \E k \in PayloadKeys :
          CacheRoom(ixPreimage("setRepMint")) /\ SetRepMintCall(Dao1, k)
    \/ \E k \in PayloadKeys :
          CacheRoom(ixPreimage("adminCloseAny")) /\ AdminCloseAnyCall(k)
    \/ \E k \in PayloadKeys :
          CacheRoom(ixPreimage("closeConfig")) /\ CloseConfigCall(Dao1, k)
    \/ \E a \in PayloadAmounts, c \in PayloadConfigs : AddReputationPointsRun(a, c)
    \/ \E c \in PayloadConfigs : ResetReputationRun(c)
    \/ \E a \in PayloadAmounts, c \in PayloadConfigs, r \in PayloadReps :
          AddReputationRun(a, c, r)

SpecPayload == InitPayload /\ [][NextPayload]_vars

----------------------------------------------------------------------------
(* ixDiscriminator and accountDiscriminator called on their own.  ixCall     *)
(* holds the function and the name, ixOut the byte array handed back: the    *)
(* array object the cache holds.                                             *)

DiscArgs(name, arg) == [name |-> name, arg |-> arg]

KnownIxNames ==
    {"initializeConfig", "setAuthority", "setSeason", "setDecayBps", "setRepMint",
     "addReputation", "resetReputation", "transferReputation",
     "upsertProjectMetadata", "closeReputation", "closeProjectMetadata",
     "closeConfig", "adminCloseAny"}

\* names the lookup table does not hold
OtherIxNames == {"myNewIx", "setV2Config", "parseURL", "a__b", "a___b", "Foo", "my_Ix"}

AccountNames == {"Reputation", "ReputationConfig", "ProjectMetadata", "reputationConfig"}

IxDiscriminatorCall(idlIxName) ==
    /\ CacheRoom(ixPreimage(idlIxName))
    /\ ixCall' = DiscArgs("ixDiscriminator", idlIxName)
    /\ ixOut' = ixDiscriminator(discCache, idlIxName)
    /\ discCache' = cachePut(discCache, ixPreimage(idlIxName))
    /\ UNCHANGED <<fetchVars, addVars>>

AccountDiscriminatorCall(accountName) ==
    /\ CacheRoom(accountPreimage(accountName))
    /\ ixCall' = DiscArgs("accountDiscriminator", accountName)
    /\ ixOut' = accountDiscriminator(discCache, accountName)
    /\ discCache' = cachePut(discCache, accountPreimage(accountName))
    /\ UNCHANGED <<fetchVars, addVars>>

\* the preimage the last call looked up
lastPreimage ==
    IF ixCall.name = "ixDiscriminator" THEN ixPreimage(ixCall.arg)
    ELSE accountPreimage(ixCall.arg)

\* the caller stores byte b at index i of the array it was handed; that array
\* is the one in the cache (anchorDiscSync returns `cached`, or the `disc` it
\* has just stored), so the entry changes with it
CallerWrite(i, b) ==
    /\ ixCall.name \in {"ixDiscriminator", "accountDiscriminator"}
    /\ discCache' = [discCache EXCEPT ![lastPreimage] = [@ EXCEPT ![i + 1] = b]]
    /\ ixOut' = discCache'[lastPreimage]
    /\ UNCHANGED <<ixCall, fetchVars, addVars>>

InitDisc ==
    /\ discCache = <<>>
    /\ InitFetchVars
    /\ InitAddVars
    /\ InitIxVars

\* callers that only read what they are handed
NextDisc ==
    \/ \E n \in KnownIxNames \cup OtherIxNames : IxDiscriminatorCall(n)
    \/ \E n \in AccountNames : AccountDiscriminatorCall(n)

SpecDisc == InitDisc /\ [][NextDisc]_vars

AliasIxNames == {"addReputation", "myNewIx"}
AliasAccountNames == {"Reputation"}
WrittenIndexes == {0, 7}
WrittenBytes == {0, 255}

\* callers that also write into what they are handed
NextDiscAlias ==
    \/ \E n \in AliasIxNames : IxDiscriminatorCall(n)
    \/ \E n \in AliasAccountNames : AccountDiscriminatorCall(n)
    \/ \E i \in WrittenIndexes, b \in WrittenBytes : CallerWrite(i, b)

SpecDiscAlias == InitDisc /\ [][NextDiscAlias]_vars

----------------------------------------------------------------------------
(* fetchAllSpaces, and the two scans run from call to return with the       *)
(* collaborator's responses as inputs.  ixCall holds the scan's name,       *)
(* arguments and responses, ixOut what it returned or that it threw.        *)

CustomProgramId == Key(87, 50)

\* an account as getProgramAccounts(programId) lists it
ProgramAccount(pubkey, owner, data) == [pubkey |-> pubkey, owner |-> owner, data |-> data]

Skipped == [threw |-> FALSE, rows |-> <<>>]

\* the body of the try block of one loop iteration (lines 386-409)
spaceStep(cache, a, programId) ==
    LET raw == a.data
        disc == accountDiscriminator(cache, "ReputationConfig")
    IN  IF a.owner # programId THEN Skipped
        ELSE IF Len(raw) < 8 THEN Skipped
        ELSE IF ~u8eq(subarray(raw, 0, 8), disc) THEN Skipped
        ELSE LET cfg == decodeReputationConfig(cache, raw)
             IN  IF ~cfg.ok THEN [threw |-> TRUE, rows |-> <<>>]
                 ELSE LET expected == getConfigPda(cfg.daoId, programId)[1]
                      IN  IF expected # a.pubkey THEN Skipped
                          ELSE [threw |-> FALSE,
                                rows |-> <<[version |-> cfg.version,
                                            daoId |-> cfg.daoId,
                                            authority |-> cfg.authority,
                                            repMint |-> cfg.repMint,
                                            currentSeason |-> cfg.currentSeason,
                                            decayBps |-> cfg.decayBps,
                                            configPda |-> a.pubkey]>>]

\* no catch around the iteration: the error leaves the loop
ignoreBadAccount_Rethrow(step) == step

\* catch { // ignore bad accounts }
ignoreBadAccount(step) == [threw |-> FALSE, rows |-> step.rows]

\* for (const a of accts) { try { ... } catch { } }
RECURSIVE spacesFrom(_, _, _, _)
spacesFrom(cache, accts, i, programId) ==
    IF i > Len(accts) THEN Skipped
    ELSE LET step == ignoreBadAccount(spaceStep(cache, accts[i], programId))
         IN  IF step.threw THEN [threw |-> TRUE, rows |-> <<>>]
             ELSE LET rest == spacesFrom(cache, accts, i + 1, programId)
                  IN  [threw |-> rest.threw, rows |-> step.rows \o rest.rows]

\* the later space of a DAO always replaces the earlier one
replacesPrev_Always(s, prev) == TRUE

\* s.currentSeason > prev.currentSeason
replacesPrev(s, prev) == s.currentSeason > prev.currentSeason

\* byDao.set(k, s) when there is no prev or s replaces it; a Map keeps a key
\* at the position of its first insertion
byDaoSet(byDao, s) ==
    IF \E j \in 1..Len(byDao) : byDao[j].daoId = s.daoId
    THEN [j \in 1..Len(byDao) |->
            IF byDao[j].daoId = s.daoId /\ replacesPrev(s, byDao[j]) THEN s ELSE byDao[j]]
    ELSE Append(byDao, s)

RECURSIVE byDaoFrom(_, _, _)
byDaoFrom(out, i, byDao) ==
    IF i > Len(out) THEN byDao ELSE byDaoFrom(out, i + 1, byDaoSet(byDao, out[i]))

\* Array.from(byDao.values())
byDaoValues(out) == byDaoFrom(out, 1, <<>>)

ScanThrew == [ok |-> FALSE, rows |-> <<>>]
ScanReturned(rows) == [ok |-> TRUE, rows |-> rows]

\* fetchAllSpaces(conn, programId) given what getProgramAccounts answered
fetchAllSpaces(cache, response, programId) ==
    IF response.status = "rejected" THEN ScanThrew
    ELSE LET out == spacesFrom(cache, response.value, 1, programId)
         IN  IF out.threw THEN ScanThrew ELSE ScanReturned(byDaoValues(out.rows))

\* fetchReputationsForDaoSeason given how its two queries settled
fetchReputationsForDaoSeason(cache, args, newQuery, oldQuery) ==
    IF allSettledThrows(newQuery, oldQuery) THEN ScanThrew
    ELSE LET settled == allSettled(newQuery, oldQuery, "new")
         IN  ScanReturned(reconcile(cache, settled[1], settled[2], Dao1,
                                    args.season, args.limit, VINE_REP_PROGRAM_ID))

Cfg1Custom == getConfigPda(Dao1, CustomProgramId)[1]

ConfigOf(daoId, season) == ReputationConfigBytes(daoId, Authority, Key(30, 1), season, 100)

\* Config accounts of two DAOs, one of them listed with two contents, one at
\* an address that is not its own, one owned by another program, one of a
\* second deployment, and accounts that are no Config at all
SpaceAccounts ==
    {ProgramAccount(Cfg1, VINE_REP_PROGRAM_ID, ConfigOf(Dao1, 3)),
     ProgramAccount(Cfg1, VINE_REP_PROGRAM_ID, ConfigOf(Dao1, 5)),
     ProgramAccount(Cfg2, VINE_REP_PROGRAM_ID, ConfigOf(Dao2, 4)),
     ProgramAccount(Key(99, 9), VINE_REP_PROGRAM_ID, ConfigOf(Dao2, 9)),
     ProgramAccount(Cfg1, SystemProgramId, ConfigOf(Dao1, 8)),
     ProgramAccount(Cfg1Custom, CustomProgramId, ConfigOf(Dao1, 6)),
     ProgramAccount(Key(40, 1), VINE_REP_PROGRAM_ID,
                    SubSeq(ConfigOf(Dao1, 3), 1, ConfigMinLen - 1)),
     ProgramAccount(Key(41, 1), VINE_REP_PROGRAM_ID, <<1, 2, 3>>),
     ProgramAccount(AcctOld.pubkey, VINE_REP_PROGRAM_ID, AcctOld.data)}

SpaceResponses == UNION {[1..n -> SpaceAccounts] : n \in 0..MaxHits}

SpacePrograms == {VINE_REP_PROGRAM_ID, CustomProgramId}

\* Reputation accounts of the season and accounts that do not decode: under
\* eight bytes, another discriminator, too short for the legacy layout
AcctTiny == [pubkey |-> Key(42, 1), data |-> <<1, 2, 3>>]
AcctWrongDisc == [pubkey |-> Cfg1, data |-> ConfigOf(Dao1, 3)]

ScanPool == {AcctOld, AcctNew, AcctShort, AcctTiny, AcctWrongDisc}

ScanResponses(sliceLen) ==
    UNION {[1..n -> {Hit(a, sliceLen) : a \in ScanPool}] : n \in 0..MaxHits}

ScanRequests == {[season |-> 3, limit |-> DefaultLimit], [season |-> 3, limit |-> 1]}

\* one call runs at a time: a function is called once the last result was
\* handed back
NoCallRunning == ixCall.name = "none"

\* the caller takes the result; the next function may be called
HandedBack ==
    /\ ~NoCallRunning
    /\ ixCall' = IxArgs("none", <<>>, 0)
    /\ ixOut' = IxThrew(<<"none">>)
    /\ UNCHANGED <<discCache, fetchVars, addVars>>

FetchAllSpacesRun(programId, response) ==
    /\ NoCallRunning
    /\ ixCall' = [name |-> "fetchAllSpaces", programId |-> programId, response |-> response]
    /\ ixOut' = fetchAllSpaces(discCache, response, programId)
    /\ discCache' = IF response.status = "rejected" THEN discCache
                    ELSE cachePut(discCache, accountPreimage("ReputationConfig"))
    /\ UNCHANGED <<fetchVars, addVars>>

FetchReputationsRun(args, newQuery, oldQuery) ==
    /\ NoCallRunning
    /\ ixCall' = [name |-> "fetchReputationsForDaoSeason", season |-> args.season,
                  limit |-> args.limit, newQuery |-> newQuery, oldQuery |-> oldQuery]
    /\ ixOut' = fetchReputationsForDaoSeason(discCache, args, newQuery, oldQuery)
    /\ discCache' = cachePut(discCache, accountPreimage("Reputation"))
    /\ UNCHANGED <<fetchVars, addVars>>

InitScan ==
    /\ discCache = <<>>
    /\ InitFetchVars
    /\ InitAddVars
    /\ InitIxVars

NextScan ==
    \/ /\ NoCallRunning
       /\ \E p \in SpacePrograms, accts \in SpaceResponses :
             FetchAllSpacesRun(p, Fulfilled(accts))
    \/ \E p \in SpacePrograms : FetchAllSpacesRun(p, Rejected)
    \/ /\ NoCallRunning
       /\ \E args \in ScanRequests, new \in ScanResponses(NewSliceLen),
             old \in ScanResponses(OldSliceLen) :
             FetchReputationsRun(args, Fulfilled(new), Fulfilled(old))
    \/ /\ NoCallRunning
       /\ \E args \in ScanRequests, old \in ScanResponses(OldSliceLen) :
             FetchReputationsRun(args, Rejected, Fulfilled(old))
    \/ HandedBack

SpecScan == InitScan /\ [][NextScan]_vars

----------------------------------------------------------------------------
(* The functions that take a Connection, run from call to return against    *)
(* the collaborator's accounts.  ixOut holds the requests the call made of  *)
(* the Connection, in order, and the call's result.                         *)

GetAccountInfo(address) == [method |-> "getAccountInfo", target |-> address, data |-> <<>>]
GetProgramAccounts(programId) ==
    [method |-> "getProgramAccounts", target |-> programId, data |-> <<>>]
SendTransaction(ix) == [method |-> "sendTransaction", target |-> ix.repPda, data |-> ix.data]

\* what a request does to the Reputation account the collaborator holds:
\* the two reads nothing, a submitted add_reputation instruction what the
\* program does with it
requestEffect(rep, request) ==
    IF request.method = "sendTransaction" /\ request.target = RepAccountAddr
    THEN setTotal(rep, SubSeq(request.data, 9, 16) \o <<0>>)
    ELSE rep

RECURSIVE repAfter(_, _, _)
repAfter(rep, requests, i) ==
    IF i > Len(requests) THEN rep
    ELSE repAfter(requestEffect(rep, requests[i]), requests, i + 1)

\* conn.getProgramAccounts(programId) without filters
programAccounts(programId) ==
    IF programId # VINE_REP_PROGRAM_ID THEN <<>>
    ELSE (IF cfgAccount.exists
          THEN <<ProgramAccount(Cfg1, VINE_REP_PROGRAM_ID, cfgAccount.data)>> ELSE <<>>)
         \o (IF repAccount.exists
             THEN <<ProgramAccount(RepAccountAddr, VINE_REP_PROGRAM_ID, repAccount.data)>>
             ELSE <<>>)

\* conn.getProgramAccounts(programId, { dataSlice, filters })
programAccountsWhere(programId, Matches(_), sliceLen) ==
    LET kept == SelectSeq(programAccounts(programId), Matches)
    IN  [i \in 1..Len(kept) |-> Hit(kept[i], sliceLen)]

\* the builder sends the instruction it built
builderRequests_Send(fn, afterConfig) ==
    <<GetAccountInfo(Cfg1)>>
        \o (IF readsReputation(fn, afterConfig)
            THEN <<GetAccountInfo(afterConfig.repPda)>> ELSE <<>>)
        \o (IF afterConfig.ok THEN <<SendTransaction(afterConfig)>> ELSE <<>>)

\* the requests of buildAddReputationPointsIx, buildAddReputationIx and
\* buildResetReputationIx: the Config read and, in buildAddReputationIx, the
\* Reputation read; the instruction is returned, never sent
builderRequests(fn, afterConfig) ==
    <<GetAccountInfo(Cfg1)>>
        \o (IF readsReputation(fn, afterConfig)
            THEN <<GetAccountInfo(afterConfig.repPda)>> ELSE <<>>)

ConnRun(requests, result, preimages) ==
    [requests |-> requests, result |-> result, preimages |-> preimages]

\* fetchConfig(conn, daoId): a third argument is not a parameter and is not read
fetchConfig(cache, op) ==
    LET configPda == getConfigPda(op.daoId, VINE_REP_PROGRAM_ID)[1]
        ai == getAccountInfo(configPda)
    IN  ConnRun(<<GetAccountInfo(configPda)>>,
                IF ~ai.exists THEN Null ELSE decodeReputationConfig(cache, ai.data),
                IF ai.exists THEN {accountPreimage("ReputationConfig")} ELSE {})

\* fetchProjectMetadata(conn, daoId)
fetchProjectMetadata(cache, op) ==
    LET metaPda == getProjectMetaPda(op.daoId, VINE_REP_PROGRAM_ID)[1]
        ai == getAccountInfo(metaPda)
    IN  ConnRun(<<GetAccountInfo(metaPda)>>,
                IF ~ai.exists THEN Null ELSE decodeProjectMetadata(cache, ai.data),
                IF ai.exists THEN {accountPreimage("ProjectMetadata")} ELSE {})

\* fetchReputation(conn, daoId, user, season)
fetchReputationAt(cache, op) ==
    LET configPda == getConfigPda(op.daoId, VINE_REP_PROGRAM_ID)[1]
        repPda == getReputationPda(configPda, op.user, op.season, VINE_REP_PROGRAM_ID)[1]
        ai == getAccountInfo(repPda)
    IN  ConnRun(<<GetAccountInfo(repPda)>>,
                fetchReputation(cache, ai),
                IF ai.exists THEN {accountPreimage("Reputation")} ELSE {})

\* fetchAllSpaces(conn, programId) with the collaborator answering
fetchAllSpacesOn(cache, op) ==
    ConnRun(<<GetProgramAccounts(op.programId)>>,
            fetchAllSpaces(cache, Fulfilled(programAccounts(op.programId)), op.programId),
            {accountPreimage("ReputationConfig")})

\* fetchReputationsForDaoSeason({conn, daoId: Dao1, season, limit}) with the
\* collaborator answering both queries by their filters
fetchReputationsOn(cache, op) ==
    LET disc == accountDiscriminator(cache, "Reputation")
        seasonBytes == u16le(Mask16(op.season))
        MatchesNewLayout(a) == newLayoutFilter(a.data, disc, Cfg1, seasonBytes)
        MatchesOldLayout(a) == oldLayoutFilter(a.data, disc, seasonBytes)
        newQuery == Fulfilled(programAccountsWhere(VINE_REP_PROGRAM_ID,
                                                   MatchesNewLayout, NewSliceLen))
        oldQuery == Fulfilled(programAccountsWhere(VINE_REP_PROGRAM_ID,
                                                   MatchesOldLayout, OldSliceLen))
    IN  ConnRun(<<GetProgramAccounts(VINE_REP_PROGRAM_ID),
                  GetProgramAccounts(VINE_REP_PROGRAM_ID)>>,
                fetchReputationsForDaoSeason(cache, op, newQuery, oldQuery),
                {accountPreimage("Reputation")})

\* one of the three builders that take a Connection, from call to return
builderOn(cache, op) ==
    LET call == op.call
        cfgAi == getAccountInfo(Cfg1)
        afterConfig ==
            CASE op.name = "buildAddReputationIx" -> addAfterConfig(cache, call, cfgAi)
              [] op.name = "buildAddReputationPointsIx" -> addPointsAfterConfig(cache, call, cfgAi)
              [] op.name = "buildResetReputationIx" -> resetAfterConfig(cache, call, cfgAi)
        more == readsReputation(op.name, afterConfig)
        repAi == IF more THEN getAccountInfo(afterConfig.repPda) ELSE NoAccount
    IN  ConnRun(builderRequests(op.name, afterConfig),
                IF more
                THEN addAfterRep(cache, [fn |-> call.fn, hasSeason |-> call.hasSeason,
                                         season |-> call.season, amount |-> call.amount,
                                         out |-> afterConfig], repAi)
                ELSE afterConfig,
                {ixPreimage("addReputation")}
                    \cup (IF cfgAi.exists THEN {accountPreimage("ReputationConfig")} ELSE {})
                    \cup (IF repAi.exists /\ Len(repAi.data) # 0
                          THEN {accountPreimage("Reputation")} ELSE {}))

connRun(cache, op) ==
    CASE op.name = "fetchConfig" -> fetchConfig(cache, op)
      [] op.name = "fetchProjectMetadata" -> fetchProjectMetadata(cache, op)
      [] op.name = "fetchReputation" -> fetchReputationAt(cache, op)
      [] op.name = "fetchAllSpaces" -> fetchAllSpacesOn(cache, op)
      [] op.name = "fetchReputationsForDaoSeason" -> fetchReputationsOn(cache, op)
      [] OTHER -> builderOn(cache, op)

\* a function that takes a Connection is called and runs to its return
ConnCall(op) ==
    /\ NoCallRunning
    /\ LET run == connRun(discCache, op)
       IN  /\ CacheHolds(run.preimages)
           /\ ixCall' = op
           /\ ixOut' = [requests |-> run.requests, result |-> run.result]
           /\ discCache' = cachePutAll(discCache, run.preimages)
           /\ repAccount' = repAfter(repAccount, run.requests, 1)
    /\ UNCHANGED <<cfgAccount, repInitial, calls, fetchVars>>

\* getConfigPda(daoId, programId), getProjectMetaPda(daoId, programId)
ConfigPdaCall(name, daoId, programId) ==
    /\ ixCall' = [name |-> name, daoId |-> daoId, programId |-> programId]
    /\ ixOut' = [ok |-> TRUE,
                 address |-> IF name = "getConfigPda"
                             THEN getConfigPda(daoId, programId)[1]
                             ELSE getProjectMetaPda(daoId, programId)[1]]
    /\ UNCHANGED <<discCache, fetchVars, addVars>>

ConnFunctions ==
    {"fetchConfig", "fetchProjectMetadata", "fetchReputation", "fetchAllSpaces",
     "fetchReputationsForDaoSeason", "buildAddReputationPointsIx",
     "buildAddReputationIx", "buildResetReputationIx"}

\* the calls made of them; the fetch helpers also with a program id passed
\* behind their last parameter
ConnOps ==
    {[name |-> n, daoId |-> Dao1, programId |-> p] :
        n \in {"fetchConfig", "fetchProjectMetadata"}, p \in SpacePrograms}
    \cup {[name |-> "fetchReputation", daoId |-> Dao1, user |-> UserA, season |-> 3,
           programId |-> p] : p \in SpacePrograms}
    \cup {[name |-> "fetchAllSpaces", programId |-> p] : p \in SpacePrograms}
    \cup {[name |-> "fetchReputationsForDaoSeason", season |-> 3, limit |-> DefaultLimit]}
    \cup {[name |-> c.fn, call |-> c] :
            c \in {Args("buildAddReputationIx", FALSE, 0, BigOf(1)),
                   Args("buildAddReputationIx", TRUE, 5, BigOf(1)),
                   Args("buildAddReputationPointsIx", FALSE, 0, BigOf(2)),
                   Args("buildResetReputationIx", FALSE, 0, BigOf(0))}}

LayerConfigs == {NoAccount, AccountInfo(ConfigOf(Dao1, 3))}
LayerReps == {NoRep("old"),
              [exists |-> TRUE, layout |-> "old",
               data |-> ReputationOldBytes(UserA, 3, BigOf(5), BigOf(100))]}

InitLayer ==
    /\ discCache = <<>>
    /\ InitFetchVars
    /\ InitIxVars
    /\ cfgAccount \in LayerConfigs
    /\ repAccount \in LayerReps
    /\ repInitial = repAccount
    /\ calls = <<>>

\* the functions without a Connection, one call of each
PureCalls ==
    \/ CacheRoom(ixPreimage("initializeConfig")) /\ InitializeConfigCall(Dao1, 3)
    \/ CacheRoom(ixPreimage("setSeason")) /\ SetSeasonCall(Dao1, 3)
    \/ CacheRoom(ixPreimage("setDecayBps")) /\ SetDecayBpsCall(Dao1, 100)
    \/ CacheRoom(ixPreimage("closeReputation")) /\ CloseReputationCall(Dao1, 3)
    \/ CacheRoom(ixPreimage("transferReputation")) /\ TransferReputationCall(Dao1, 3)
    \/ CacheRoom(ixPreimage("upsertProjectMetadata"))
          /\ UpsertProjectMetadataCall(Dao1, <<104, 105>>)
    \/ CacheRoom(ixPreimage("setAuthority")) /\ SetAuthorityCall(Dao1, UserB)
    \/ CacheRoom(ixPreimage("setRepMint")) /\ SetRepMintCall(Dao1, UserB)
    \/ CacheRoom(ixPreimage("adminCloseAny")) /\ AdminCloseAnyCall(UserB)
    \/ CacheRoom(ixPreimage("closeConfig")) /\ CloseConfigCall(Dao1, UserB)
    \/ GetReputationPdaCall(Cfg1, UserA, 3)
    \/ CacheRoom(accountPreimage("ReputationConfig"))
          /\ DecodeReputationConfigCall(ConfigOf(Dao1, 3))
    \/ CacheRoom(accountPreimage("ProjectMetadata"))
          /\ DecodeProjectMetadataCall(ProjectMetadataBytes(Dao1, u32le(2), <<104, 105, 254>>))
    \/ \E layout \in RepLayouts :
          /\ CacheRoom(accountPreimage("Reputation"))
          /\ DecodeReputationCall(layout, RepRecord(1, UserA, 3, BigOf(5), BigOf(100), 255))
    \/ IxDiscriminatorCall("addReputation")
    \/ AccountDiscriminatorCall("Reputation")

NextLayer ==
    \/ \E op \in ConnOps : ConnCall(op)
    \/ \E n \in {"getConfigPda", "getProjectMetaPda"}, p \in SpacePrograms :
          NoCallRunning /\ ConfigPdaCall(n, Dao1, p)
    \/ NoCallRunning /\ PureCalls
    \/ HandedBack

SpecLayer == InitLayer /\ [][NextLayer]_vars

----------------------------------------------------------------------------
(* Claims about fetchReputationsForDaoSeason *)

RowKeys == {fResult[i].pubkey : i \in 1..Len(fResult)}
HitKeys(settled) == {settled.value[i].pubkey : i \in 1..Len(settled.value)}
RowsAt(pk) == {i \in 1..Len(fResult) : fResult[i].pubkey = pk}

ReqSeasonBytes == u16le(Mask16(fArgs.season))
RepDisc == Sha256First8("account:Reputation")
MatchesNew(a) == newLayoutFilter(a.data, RepDisc, Cfg1, ReqSeasonBytes)
MatchesOld(a) == oldLayoutFilter(a.data, RepDisc, ReqSeasonBytes)

\* the two responses are what a collaborator that honours the filters answers
\* for some set of accounts: only matching accounts, none twice, and an
\* account that matches both filters is in both responses
HonestResponses ==
    /\ newSettled.status = "fulfilled"
    /\ oldSettled.status = "fulfilled"
    /\ \A i, j \in 1..Len(newSettled.value) :
          newSettled.value[i].pubkey = newSettled.value[j].pubkey => i = j
    /\ \A i, j \in 1..Len(oldSettled.value) :
          oldSettled.value[i].pubkey = oldSettled.value[j].pubkey => i = j
    /\ \A a \in Pool :
          /\ a.pubkey \in HitKeys(newSettled) => MatchesNew(a)
          /\ a.pubkey \in HitKeys(oldSettled) => MatchesOld(a)
          /\ (a.pubkey \in HitKeys(newSettled) /\ MatchesOld(a)) => a.pubkey \in HitKeys(oldSettled)
          /\ (a.pubkey \in HitKeys(oldSettled) /\ MatchesNew(a)) => a.pubkey \in HitKeys(newSettled)

\* a legacy-layout account at the address derived for the requested season
IsOldAtDerived(a) ==
    /\ Len(a.data) < RepNewMinLen
    /\ decodeReputation(<<>>, a.data).ok
    /\ a.pubkey = RepAddr(decodeReputation(<<>>, a.data).user, fArgs.season)

\* a current-layout account at the address derived for the requested season
IsNewAtDerived(a) ==
    /\ Len(a.data) >= RepNewMinLen
    /\ u8eq(subarray(a.data, 0, 8), RepDisc)
    /\ a.pubkey = RepAddr(decodeReputationNewLayout(a.data).user, fArgs.season)

\* C1: every returned row sits at the address recomputed from its own decoded
\* contents: the requested DAO's config, the decoded user and the decoded
\* season (the claim as stated; the code derives with the requested season).
C1_RowAtOwnDerivedAddress ==
    fPc = "done" =>
        \A i \in 1..Len(fResult) :
            fResult[i].pubkey =
                getReputationPda(Cfg1, fResult[i].user, fResult[i].season,
                                 VINE_REP_PROGRAM_ID)[1]

\* C2: with a legacy and a current account of the season, each at its derived
\* address and each answered by its filter query, both are rows of the result
\* (the claim as stated).
C2_BothLayoutsReturned ==
    (fPc = "done" /\ fArgs.limit = DefaultLimit /\ HonestResponses) =>
        \A o \in Pool, n \in Pool :
            (/\ IsOldAtDerived(o) /\ o.pubkey \in HitKeys(oldSettled)
             /\ IsNewAtDerived(n) /\ n.pubkey \in HitKeys(newSettled))
            => (o.pubkey \in RowKeys /\ n.pubkey \in RowKeys /\ o.pubkey # n.pubkey)

\* C3: an account at its derived address that both filter queries answer is
\* exactly one row of the result (the claim as stated).
C3_BothFiltersOneRow ==
    (fPc = "done" /\ fArgs.limit = DefaultLimit) =>
        \A a \in Pool :
            (/\ IsNewAtDerived(a) /\ MatchesNew(a) /\ MatchesOld(a)
             /\ a.pubkey \in HitKeys(newSettled)
             /\ a.pubkey \in HitKeys(oldSettled))
            => Cardinality(RowsAt(a.pubkey)) = 1

\* C4: when exactly one of the two queries is rejected the call returns the
\* rows it returns when that query is fulfilled with no hits.
C4_OneFailureIsZeroHits ==
    fPc = "done" =>
        /\ (newSettled.status = "rejected" /\ oldSettled.status = "fulfilled") =>
              fResult = reconcile(discCache, Fulfilled(<<>>), oldSettled, Dao1,
                                  fArgs.season, fArgs.limit, VINE_REP_PROGRAM_ID)
        /\ (oldSettled.status = "rejected" /\ newSettled.status = "fulfilled") =>
              fResult = reconcile(discCache, newSettled, Fulfilled(<<>>), Dao1,
                                  fArgs.season, fArgs.limit, VINE_REP_PROGRAM_ID)

\* C4 witness: the current-layout query failed and the legacy rows came back
C4_Witness ==
    /\ fPc = "done"
    /\ newSettled.status = "rejected"
    /\ oldSettled.status = "fulfilled"
    /\ AcctOld.pubkey \in RowKeys

----------------------------------------------------------------------------
(* Claims about the builders that read the collaborator *)

AddDisc == Sha256First8("global:add_reputation")
CfgDecoded == decodeReputationConfig(<<>>, cfgAccount.data)
NoneApplied == \A d \in 1..Len(calls) : ~calls[d].applied
Returned(c) == calls[c].pc = "done" /\ calls[c].out.ok
IsMismatchError(err) ==
    Len(err) = 4 /\ err[1] = "SeasonMismatch (client): provided season="

RECURSIVE SumAmounts(_)
SumAmounts(i) == IF i = 0 THEN BigOf(0) ELSE BigAdd(SumAmounts(i - 1), calls[i].amount)

\* C5: an instruction buildAddReputationIx returns carries the discriminator
\* and u64le(current + amount), current being the points the Reputation
\* account stores in its own layout, 0 without an account (the claim as stated).
C5_PayloadIsStoredPlusAmount ==
    \A c \in 1..Len(calls) :
        (calls[c].fn = "buildAddReputationIx" /\ Returned(c) /\ NoneApplied) =>
            calls[c].out.data = AddDisc \o u64le(BigAdd(StoredTotal(repAccount), calls[c].amount))

\* C6: once the instructions of two or more buildAddReputationIx calls have
\* all been applied, the stored total is the initial total plus the sum of
\* the amounts (the claim as stated; legacy layout, no 64-bit overflow).
C6_TotalIsInitialPlusSum ==
    (/\ Len(calls) >= 2
     /\ repInitial.layout = "old"
     /\ StoredTotal(repInitial) # U64Max
     /\ \A c \in 1..Len(calls) :
           calls[c].fn = "buildAddReputationIx" /\ Returned(c) /\ calls[c].applied)
    => StoredTotal(repAccount) = BigAdd(StoredTotal(repInitial), SumAmounts(Len(calls)))

\* C7: with a decodable Config, a call given a season other than the Config's
\* currentSeason throws a SeasonMismatch error naming both values and returns
\* no instruction; a call given no season uses the Config's currentSeason and
\* never throws the mismatch error.
C7_SeasonMismatchGuard ==
    (cfgAccount.exists /\ CfgDecoded.ok) =>
        \A c \in 1..Len(calls) :
            calls[c].pc # "awaitConfig" =>
                /\ (calls[c].hasSeason /\ calls[c].season # CfgDecoded.currentSeason) =>
                      /\ calls[c].pc = "done"
                      /\ ~calls[c].out.ok
                      /\ IsMismatchError(calls[c].out.err)
                      /\ calls[c].out.err[2] = calls[c].season
                      /\ calls[c].out.err[4] = CfgDecoded.currentSeason
                      /\ calls[c].out.keys = <<>>
                      /\ calls[c].out.data = <<>>
                /\ ~calls[c].hasSeason =>
                      /\ ~IsMismatchError(calls[c].out.err)
                      /\ calls[c].out.ok
                      /\ calls[c].out.season = CfgDecoded.currentSeason

\* C7 witness: one call threw the mismatch for a season that differs from the
\* Config's only beyond 16 bits, another call without a season returned
C7_Witness ==
    /\ \E c \in 1..Len(calls) :
          /\ calls[c].pc = "done" /\ calls[c].hasSeason /\ calls[c].season = 65539
          /\ IsMismatchError(calls[c].out.err)
    /\ \E c \in 1..Len(calls) : ~calls[c].hasSeason /\ Returned(c)

\* C8: without a Config account each of the three builders throws
\* 'Config PDA not found' on the Config response and returns no instruction.
C8_ConfigNotFound ==
    ~cfgAccount.exists =>
        \A c \in 1..Len(calls) :
            calls[c].pc # "awaitConfig" =>
                /\ calls[c].pc = "done"
                /\ ~calls[c].out.ok
                /\ calls[c].out.err = ConfigNotFoundError
                /\ calls[c].out.keys = <<>>
                /\ calls[c].out.data = <<>>

\* C8 witness: two different builders have thrown for the missing Config
C8_Witness ==
    /\ ~cfgAccount.exists
    /\ \E c, d \in 1..Len(calls) :
          /\ calls[c].fn # calls[d].fn
          /\ calls[c].pc = "done" /\ calls[d].pc = "done"
          /\ calls[c].out.err = ConfigNotFoundError
          /\ calls[d].out.err = ConfigNotFoundError

\* the u64 an instruction carries, as a bigint
PayloadU64(data) == SubSeq(data, 9, 16) \o <<0>>

\* C11: an instruction buildAddReputationIx returns carries exactly
\* current + amount, never that sum reduced modulo 2^64 (the claim as stated;
\* current is read from a legacy-layout account or is 0 without an account).
C11_PayloadNotTruncated ==
    \A c \in 1..Len(calls) :
        (/\ calls[c].fn = "buildAddReputationIx" /\ Returned(c) /\ NoneApplied
         /\ (repAccount.exists => repAccount.layout = "old"))
        => PayloadU64(calls[c].out.data) = BigAdd(StoredTotal(repAccount), calls[c].amount)


\* C19: buildResetReputationIx has the outcome of buildAddReputationPointsIx
\* called with amount 0 and payer = authority on the same Config and season
\* argument: the same error, or the same season, configPda, repPda, program
\* id, keys and payload (add-reputation discriminator and eight zero bytes).
C19_ResetIsAddPointsZero ==
    \A c \in 1..Len(calls) :
        (calls[c].fn = "buildResetReputationIx" /\ calls[c].pc = "done") =>
            /\ calls[c].out = addPointsWith(discCache, [calls[c] EXCEPT !.amount = BigOf(0)],
                                            getAccountInfo(Cfg1), Authority)
            /\ calls[c].out.ok => calls[c].out.data = AddDisc \o Zeros(8)

\* C19 witness: one reset returned an instruction, another threw the mismatch
C19_Witness ==
    /\ \E c \in 1..Len(calls) :
          /\ calls[c].fn = "buildResetReputationIx" /\ Returned(c)
          /\ calls[c].out.keys[5] = Meta(Authority, TRUE, TRUE)
          /\ calls[c].out.data = AddDisc \o Zeros(8)
    /\ \E c \in 1..Len(calls) :
          /\ calls[c].fn = "buildResetReputationIx" /\ calls[c].pc = "done"
          /\ IsMismatchError(calls[c].out.err)

----------------------------------------------------------------------------
(* Claims about the decoders *)

OtherLayout(layout) == IF layout = "old" THEN "new" ELSE "old"

\* the decoded record carries the logical fields of rec
SameLogicalRecord(decoded, rec) ==
    /\ decoded.ok
    /\ decoded.version = rec.version
    /\ decoded.user = rec.user
    /\ decoded.season = rec.season
    /\ decoded.points = rec.points
    /\ decoded.lastUpdateSlot = rec.lastUpdateSlot

\* C12: decodeReputation, and fetchReputation through it, applied to a
\* current-layout account returns the user, season, points and lastUpdateSlot
\* stored at the current-layout offsets (the claim as stated).
C12_DecodeReputationBothLayouts ==
    (ixCall.name \in {"decodeReputation", "fetchReputation"} /\ ixCall.layout = "new") =>
        SameLogicalRecord(ixOut, ixCall.rec)

\* C13: a record laid out in either layout and decoded by the decoder its
\* length selects comes back with every field exact, and the image of the same
\* record in the other layout decodes to the same field values.
C13_RoundTrip ==
    ixCall.name = "decodeRepByLength" =>
        /\ Len(ixCall.data) = (IF ixCall.layout = "old" THEN RepOldMinLen ELSE RepNewMinLen)
        /\ SameLogicalRecord(ixOut, ixCall.rec)
        /\ LET other == decodeRepByLength(discCache,
                                          RepImage(OtherLayout(ixCall.layout), ixCall.rec))
           IN  /\ other.ok
               /\ other.version = ixOut.version
               /\ other.user = ixOut.user
               /\ other.season = ixOut.season
               /\ other.points = ixOut.points
               /\ other.lastUpdateSlot = ixOut.lastUpdateSlot

\* C13 witness: a current-layout image with season 0x8000 came back exact
C13_Witness ==
    /\ ixCall.name = "decodeRepByLength"
    /\ ixCall.layout = "new"
    /\ ixCall.rec.season = 32768
    /\ ixCall.rec.user = UserHigh
    /\ ixOut.ok
    /\ ixOut.season = 32768
    /\ ixOut.user = UserHigh

ConfigDisc == Sha256First8("account:ReputationConfig")

\* C14: decodeReputationConfig classifies a buffer in this order: shorter than
\* 8 bytes, 'too small'; first 8 bytes not the discriminator, the discriminator
\* error; shorter than 113, the bounds error; otherwise the fields read from
\* offsets 8, 9, 41, 73, 105, 107 and 109.
C14_ConfigDecodeOrder ==
    ixCall.name = "decodeReputationConfig" =>
        LET d == ixCall.data IN
        IF Len(d) < 8
        THEN ~ixOut.ok /\ ixOut.err = "Config data too small"
        ELSE IF SubSeq(d, 1, 8) # ConfigDisc
        THEN ~ixOut.ok /\ ixOut.err = "Not a ReputationConfig account (bad discriminator)"
        ELSE IF Len(d) < 113
        THEN ~ixOut.ok /\ ixOut.err = "Config data out of bounds"
        ELSE /\ ixOut.ok
             /\ ixOut.version = d[9]
             /\ ixOut.daoId = SubSeq(d, 10, 41)
             /\ ixOut.authority = SubSeq(d, 42, 73)
             /\ ixOut.repMint = SubSeq(d, 74, 105)
             /\ ixOut.currentSeason = d[106] + 256 * d[107]
             /\ ixOut.decayBps = d[108] + 256 * d[109]
             /\ ixOut.bump = d[110]

\* C14 witness: a 112-byte buffer with the right discriminator got the bounds error
C14_Witness ==
    /\ ixCall.name = "decodeReputationConfig"
    /\ Len(ixCall.data) = 112
    /\ SubSeq(ixCall.data, 1, 8) = ConfigDisc
    /\ ~ixOut.ok
    /\ ixOut.err = "Config data out of bounds"

MetaDisc == Sha256First8("account:ProjectMetadata")

\* C15: on a buffer with the ProjectMetadata discriminator and a declared
\* string length L at offset 41, decodeProjectMetadata throws whenever
\* 45 + L + 1 exceeds the buffer length; otherwise it returns the string
\* decoded from bytes 45..45+L-1 and the bump from byte 45+L, every byte read
\* lying inside the buffer.
C15_MetadataBounds ==
    (/\ ixCall.name = "decodeProjectMetadata"
     /\ Len(ixCall.data) >= 45
     /\ SubSeq(ixCall.data, 1, 8) = MetaDisc)
    => LET d == ixCall.data
           small == d[44] = 0 /\ d[45] = 0
           L == d[42] + 256 * d[43]
           fits == small /\ 45 + L + 1 <= Len(d)
       IN  IF ~fits THEN ~ixOut.ok
           ELSE /\ ixOut.ok
                /\ ixOut.metadataUri = TextDecode(SubSeq(d, 46, 45 + L))
                /\ ixOut.bump = d[45 + L + 1]
                /\ ixOut.bump # Undefined

\* C15 witness: a declared length one more than what the buffer holds was refused
C15_Witness ==
    /\ ixCall.name = "decodeProjectMetadata"
    /\ Len(ixCall.data) = 47
    /\ SubSeq(ixCall.data, 1, 8) = MetaDisc
    /\ SubSeq(ixCall.data, 42, 45) = <<2, 0, 0, 0>>
    /\ ~ixOut.ok
    /\ ixOut.err = "ProjectMetadata string length out of bounds"

----------------------------------------------------------------------------
(* Claims about the builders that read nothing *)

SeasonBuilders == {"buildInitializeConfigIx", "buildSetSeasonIx",
                   "buildCloseReputationIx", "buildTransferReputationIx"}

\* the season the instruction carries: the u16 in the last two payload bytes
PayloadU16 == ixOut.data[Len(ixOut.data) - 1] + 256 * ixOut.data[Len(ixOut.data)]

\* the reputation address derived for a user from a 16-bit season
RepPdaFor16(user, s16) ==
    findProgramAddressSync(<<"reputation", ixOut.configPda, user, <<s16 % 256, s16 \div 256>>>>,
                           VINE_REP_PROGRAM_ID)[1]

\* C9 as stated: a builder given a season outside 0..65535 throws and emits
\* no instruction.
C9_SeasonOutOfRangeRejected ==
    (ixCall.name \in SeasonBuilders /\ ixCall.number \notin 0..65535) => ~ixOut.ok

\* C9 as amended: the season builders accept every integer season and encode
\* and seed it wrapped to 16 bits (season mod 65536); none of them throws.
C9_SeasonWrappedNotRejected ==
    ixCall.name \in SeasonBuilders =>
        LET s16 == ixCall.number % 65536 IN
        /\ ixOut.ok
        /\ ixCall.name \in {"buildInitializeConfigIx", "buildSetSeasonIx",
                            "buildCloseReputationIx"} => PayloadU16 = s16
        /\ ixCall.name = "buildCloseReputationIx" =>
              ixOut.repPdas = <<RepPdaFor16(UserA, s16)>>
        /\ ixCall.name = "buildTransferReputationIx" =>
              ixOut.repPdas = <<RepPdaFor16(UserA, s16), RepPdaFor16(UserB, s16)>>

\* C9 witness: close-reputation built for season 65539, carrying season 3
C9_Witness ==
    /\ ixCall.name = "buildCloseReputationIx"
    /\ ixCall.number = 65539
    /\ ixOut.ok
    /\ PayloadU16 = 3

\* C10: buildSetDecayBpsIx returns an instruction exactly when decayBps is in
\* 0..10000, with payload discriminator + u16le(decayBps); otherwise it throws
\* the range error and returns nothing.
C10_DecayRangeGuard ==
    ixCall.name = "buildSetDecayBpsIx" =>
        /\ ixOut.ok <=> ixCall.number \in 0..10000
        /\ ixOut.ok =>
              ixOut.data = Sha256First8("global:set_decay_bps")
                              \o <<ixCall.number % 256, ixCall.number \div 256>>
        /\ ~ixOut.ok =>
              /\ ixOut.err = <<"decayBps must be 0..=10000">>
              /\ ixOut.keys = <<>>
              /\ ixOut.data = <<>>

\* C10 witness: decayBps = 10000 was accepted
C10_Witness ==
    /\ ixCall.name = "buildSetDecayBpsIx"
    /\ ixCall.number = 10000
    /\ ixOut.ok

\* C16: for every integer season getReputationPda passes the seeds
\* "reputation", config, user, u16le(season mod 65536), in that order, to the
\* derivation; seasons congruent modulo 65536 give the same address and bump,
\* and the same inputs give the same result.
C16_ReputationPdaSeeds ==
    ixCall.name = "getReputationPda" =>
        LET s16 == ixCall.number % 65536
            result == <<ixOut.address, ixOut.bump>>
        IN  /\ ixOut.seeds = <<"reputation", ixCall.configPda, ixCall.user,
                               <<s16 % 256, s16 \div 256>>>>
            /\ result = findProgramAddressSync(ixOut.seeds, VINE_REP_PROGRAM_ID)
            /\ \A t \in SeasonInputs \cup {ixCall.number + 65536, ixCall.number - 131072} :
                  t % 65536 = s16 =>
                      getReputationPda(ixCall.configPda, ixCall.user, t,
                                       VINE_REP_PROGRAM_ID) = result

\* C16 witness: season 65539 was seeded as 3 and gave the address of season 3
C16_Witness ==
    /\ ixCall.name = "getReputationPda"
    /\ ixCall.number = 65539
    /\ ixCall.configPda = Cfg1
    /\ ixCall.user = UserA
    /\ ixOut.seeds[4] = <<3, 0>>
    /\ ixOut.address = RepAddr(UserA, 3)

----------------------------------------------------------------------------
(* Claims about the discriminators *)

\* the on-chain name expected for each instruction name, worked out by hand
ExpectedOnChain(ix) ==
    CASE ix = "initializeConfig"      -> "initialize_config"
      [] ix = "setAuthority"          -> "set_authority"
      [] ix = "setSeason"             -> "set_season"
      [] ix = "setDecayBps"           -> "set_decay_bps"
      [] ix = "setRepMint"            -> "set_rep_mint"
      [] ix = "addReputation"         -> "add_reputation"
      [] ix = "resetReputation"       -> "reset_reputation"
      [] ix = "transferReputation"    -> "transfer_reputation"
      [] ix = "upsertProjectMetadata" -> "upsert_project_metadata"
      [] ix = "closeReputation"       -> "close_reputation"
      [] ix = "closeProjectMetadata"  -> "close_project_metadata"
      [] ix = "closeConfig"           -> "close_config"
      [] ix = "adminCloseAny"         -> "admin_close_any"
      [] ix = "myNewIx"               -> "my_new_ix"
      [] ix = "setV2Config"           -> "set_v2_config"
      [] ix = "parseURL"              -> "parse_url"
      [] ix = "a__b"                  -> "a_b"
      [] ix = "a___b"                 -> "a__b"
      [] ix = "Foo"                   -> "foo"
      [] ix = "my_Ix"                 -> "my_ix"

\* "account:" + name, the name as given
ExpectedAccountPreimage(name) ==
    CASE name = "Reputation"       -> "account:Reputation"
      [] name = "ReputationConfig" -> "account:ReputationConfig"
      [] name = "ProjectMetadata"  -> "account:ProjectMetadata"
      [] name = "reputationConfig" -> "account:reputationConfig"

\* C17: ixDiscriminator(name) is the first 8 digest bytes of "global:" + the
\* snake-case name (the table entry of a known name, the generic conversion of
\* any other); accountDiscriminator(name) is the first 8 digest bytes of
\* "account:" + name, the name not converted.
C17_DiscriminatorPreimages ==
    /\ ixCall.name = "ixDiscriminator" =>
          ixOut = Sha256First8(GlobalOf(ExpectedOnChain(ixCall.arg)))
    /\ ixCall.name = "accountDiscriminator" =>
          ixOut = Sha256First8(ExpectedAccountPreimage(ixCall.arg))

\* C17 witness: a__b went through the generic conversion and was hashed as a_b
C17_Witness ==
    /\ ixCall.name = "ixDiscriminator"
    /\ ixCall.arg = "a__b"
    /\ "global:a_b" \in DOMAIN discCache
    /\ ixOut = <<234, 36, 90, 164, 177, 29, 64, 254>>

\* C18: whatever calls were made and whatever the callers did with the arrays
\* they were handed, writing into them included, every cache entry holds the
\* first 8 digest bytes of its key (the claim as stated).
C18_CacheEntriesImmutable ==
    \A p \in DOMAIN discCache : discCache[p] = Sha256First8(p)

----------------------------------------------------------------------------
(* Claims about the payloads *)

IxDisc(onChain) == Sha256First8(GlobalOf(onChain))

\* the u16 argument as two little-endian bytes
ArgU16(n) == <<(n % 65536) % 256, (n % 65536) \div 256>>

\* the bytes UTF-8 takes for a code point
Utf8Width(cp) == IF cp < 128 THEN 1 ELSE IF cp < 2048 THEN 2 ELSE IF cp < 65536 THEN 3 ELSE 4

RECURSIVE Utf8Count(_)
Utf8Count(s) == IF s = <<>> THEN 0 ELSE Utf8Width(Head(s)) + Utf8Count(Tail(s))

\* C20: the payload of every builder is its discriminator followed by its
\* arguments in order and width: initialize-config 74 bytes (owner, reward
\* token, u16 season); set-authority and set-reward-token 40; set-season,
\* set-decay and close-reputation 10; add-reputation and reset 16;
\* transfer-reputation, close-config and admin-close 8; upsert-metadata 12 + n
\* with the u32 prefix equal to n, the UTF-8 byte count of the URI.
C20_PayloadLayouts ==
    LET name == ixCall.name
        data == ixOut.data
    IN  /\ name = "buildInitializeConfigIx" =>
              /\ Len(data) = 74
              /\ data = IxDisc("initialize_config") \o ixCall.daoId \o Key(30, 1)
                            \o ArgU16(ixCall.number)
        /\ name = "buildSetAuthorityIx" =>
              Len(data) = 40 /\ data = IxDisc("set_authority") \o ixCall.key
        /\ name = "buildSetRepMintIx" =>
              Len(data) = 40 /\ data = IxDisc("set_rep_mint") \o ixCall.key
        /\ name = "buildSetSeasonIx" =>
              Len(data) = 10 /\ data = IxDisc("set_season") \o ArgU16(ixCall.number)
        /\ (name = "buildSetDecayBpsIx" /\ ixOut.ok) =>
              Len(data) = 10 /\ data = IxDisc("set_decay_bps") \o ArgU16(ixCall.number)
        /\ name = "buildCloseReputationIx" =>
              Len(data) = 10 /\ data = IxDisc("close_reputation") \o ArgU16(ixCall.number)
        /\ (name = "buildAddReputationPointsIx" /\ ixOut.ok) =>
              /\ Len(data) = 16
              /\ data = IxDisc("add_reputation") \o SubSeq(ixCall.amount, 1, 8)
        /\ (name = "buildResetReputationIx" /\ ixOut.ok) =>
              Len(data) = 16 /\ data = IxDisc("add_reputation") \o Zeros(8)
        /\ (name = "buildAddReputationIx" /\ ixOut.ok) =>
              Len(data) = 16 /\ SubSeq(data, 1, 8) = IxDisc("add_reputation")
        /\ name = "buildTransferReputationIx" =>
              Len(data) = 8 /\ data = IxDisc("transfer_reputation")
        /\ name = "buildCloseConfigIx" =>
              Len(data) = 8 /\ data = IxDisc("close_config")
        /\ name = "buildAdminCloseAnyIx" =>
              Len(data) = 8 /\ data = IxDisc("admin_close_any")
        /\ name = "buildUpsertProjectMetadataIx" =>
              LET n == Utf8Count(ixCall.uri) IN
              /\ Len(data) = 12 + n
              /\ SubSeq(data, 1, 8) = IxDisc("upsert_project_metadata")
              /\ SubSeq(data, 9, 12) = <<n % 256, n \div 256, 0, 0>>
              /\ TextDecode(SubSeq(data, 13, 12 + n)) = ixCall.uri

\* C20 witness: a URI of two characters and five UTF-8 bytes was encoded
C20_Witness ==
    /\ ixCall.name = "buildUpsertProjectMetadataIx"
    /\ ixCall.uri = <<128512, 97>>
    /\ Len(ixOut.data) = 17
    /\ SubSeq(ixOut.data, 9, 12) = <<5, 0, 0, 0>>

----------------------------------------------------------------------------
(* Claims about the order and the size of the season scan's result *)

\* the candidates left after the merge and the de-duplication by address
Candidates == byPkValues(MergeSettled(newSettled, oldSettled))

\* the records that pass verification, in candidate order
Survivors ==
    verifyFrom(discCache, Candidates, 1, Cfg1, fArgs.season, VINE_REP_PROGRAM_ID)

\* C21: the result is ordered by points non-increasing and has at most limit
\* rows; every row is a surviving record, every surviving record is a row
\* when they fit the limit, and no surviving record left out has more points
\* than a returned row.
C21_SortedAndTruncated ==
    fPc = "done" =>
        /\ Len(fResult) <= fArgs.limit
        /\ Len(fResult) = IF Len(Survivors) <= fArgs.limit THEN Len(Survivors) ELSE fArgs.limit
        /\ \A i \in 1..(Len(fResult) - 1) :
              BigCmp(fResult[i].points, fResult[i + 1].points) >= 0
        /\ \A i \in 1..Len(fResult) : \E j \in 1..Len(Survivors) : Survivors[j] = fResult[i]
        /\ \A j \in 1..Len(Survivors) :
              Survivors[j].pubkey \notin RowKeys =>
                  \A i \in 1..Len(fResult) :
                      BigCmp(Survivors[j].points, fResult[i].points) <= 0

\* C21 witness: two records of different points survive under limit 1 and the
\* one row returned is the higher of them
C21_Witness ==
    /\ fPc = "done"
    /\ fArgs.limit = 1
    /\ Len(Survivors) = 2
    /\ BigCmp(Survivors[1].points, Survivors[2].points) = -1
    /\ fResult = <<Survivors[2]>>

\* the other arrival order of the two responses
OtherFirst == IF fFirst = "old" THEN "new" ELSE "old"

\* what the call returns for the same two responses arriving in the order `first`
ResultIfFirst(first) ==
    LET settled == allSettled(newSettled, oldSettled, first)
    IN  reconcile(discCache, settled[1], settled[2], Dao1,
                  fArgs.season, fArgs.limit, VINE_REP_PROGRAM_ID)

----------------------------------------------------------------------------
(* Claims about failed queries and about the season of the rows *)

\* C29: when both queries are rejected the call returns, it does not throw,
\* and what it returns is the empty list: the list it returns when both
\* queries are fulfilled with no hits.
C29_TotalFailureIsEmpty ==
    (fPc \in {"done", "threw"} /\ newSettled.status = "rejected" /\ oldSettled.status = "rejected") =>
        /\ fPc = "done"
        /\ fResult = <<>>
        /\ fResult = reconcile(discCache, Fulfilled(<<>>), Fulfilled(<<>>), Dao1,
                               fArgs.season, fArgs.limit, VINE_REP_PROGRAM_ID)

\* C29 witness: both queries were rejected and the call returned
C29_Witness ==
    /\ fPc = "done"
    /\ newSettled.status = "rejected"
    /\ oldSettled.status = "rejected"
    /\ fResult = <<>>

\* C30: every returned row carries the requested season modulo 65536 (the
\* claim as stated; the code copies the season decoded from the bytes and
\* never compares it with the requested one).
C30_RowSeasonIsRequested ==
    fPc = "done" =>
        \A i \in 1..Len(fResult) : fResult[i].season = Mask16(fArgs.season)

----------------------------------------------------------------------------
(* Claims about the order of the reads of buildAddReputationIx *)

\* the Config passed every test of lines 807-822 for this call
ConfigAccepted(call) ==
    /\ cfgAccount.exists
    /\ CfgDecoded.ok
    /\ CfgDecoded.currentSeason \in 0..65535
    /\ call.hasSeason => call.season = CfgDecoded.currentSeason

\* C27: buildAddReputationIx reads the Config account first and the Reputation
\* account second, the second only once the Config was found, decoded and
\* the season test passed; a call that failed on a missing Config or on a
\* season mismatch made exactly one read, of the Config.
C27_ReadOrder ==
    \A c \in 1..Len(calls) :
        calls[c].fn = "buildAddReputationIx" =>
            LET call == calls[c]
                repPda == getReputationPda(Cfg1, UserA, seasonOf(call, CfgDecoded.currentSeason),
                                           VINE_REP_PROGRAM_ID)[1]
            IN  /\ Len(call.reads) <= 2
                /\ call.pc = "awaitConfig" => call.reads = <<>>
                /\ call.pc = "awaitRep" => call.reads = <<Cfg1>>
                /\ call.pc = "done" => Len(call.reads) >= 1
                /\ Len(call.reads) >= 1 => call.reads[1] = Cfg1
                /\ Len(call.reads) = 2 => (ConfigAccepted(call) /\ call.reads[2] = repPda)
                /\ (call.pc = "done" /\ ConfigAccepted(call)) => call.reads = <<Cfg1, repPda>>
                /\ (call.pc = "done" /\ ~call.out.ok
                        /\ (call.out.err = ConfigNotFoundError \/ IsMismatchError(call.out.err)))
                      => call.reads = <<Cfg1>>

\* C27 witness: one call failed on a season mismatch after its one read, and
\* another returned after reading the Config and then the Reputation account
C27_Witness ==
    \E c, d \in 1..Len(calls) :
        /\ calls[c].fn = "buildAddReputationIx"
        /\ calls[c].pc = "done"
        /\ IsMismatchError(calls[c].out.err)
        /\ calls[c].reads = <<Cfg1>>
        /\ calls[d].fn = "buildAddReputationIx"
        /\ calls[d].pc = "done"
        /\ calls[d].out.ok
        /\ calls[d].reads = <<Cfg1, RepAccountAddr>>

----------------------------------------------------------------------------
(* Claims about the optional arguments *)

SeasonOmitted == "seasonOmitted" \in DOMAIN ixCall

\* C24: buildTransferReputationIx called without a season puts into the
\* account list the source and destination addresses derived for the current
\* season of the DAO's Config (the claim as stated; the code reads no Config
\* and derives both addresses from the missing value).
C24_TransferDefaultsToCurrentSeason ==
    (/\ SeasonOmitted
     /\ ixCall.name = "buildTransferReputationIx"
     /\ ixCall.daoId = Dao1
     /\ cfgAccount.exists
     /\ CfgDecoded.ok) =>
        LET repFrom == getReputationPda(Cfg1, UserA, CfgDecoded.currentSeason,
                                        VINE_REP_PROGRAM_ID)[1]
            repTo == getReputationPda(Cfg1, UserB, CfgDecoded.currentSeason,
                                      VINE_REP_PROGRAM_ID)[1]
        IN  /\ ixOut.ok
            /\ ixOut.keys[5].pubkey = repFrom
            /\ ixOut.keys[6].pubkey = repTo

----------------------------------------------------------------------------
(* Claims about the two scans *)

\* a listed account whose bytes do not decode as a Config
ConfigUndecodable(a) ==
    \/ Len(a.data) < 8
    \/ subarray(a.data, 0, 8) # ConfigDisc
    \/ Len(a.data) < ConfigMinLen

\* a hit whose bytes do not decode as a Reputation account of either layout
RepUndecodable(a) ==
    \/ Len(a.data) < 8
    \/ subarray(a.data, 0, 8) # RepDisc
    \/ Len(a.data) < RepOldMinLen

ConfigDecodes(a) == ~ConfigUndecodable(a)
RepDecodes(a) == ~RepUndecodable(a)

\* the response without the candidates that do not decode
WithoutUndecodable(response, Decodes(_)) ==
    [response EXCEPT !.value = SelectSeq(response.value, Decodes)]

\* C22: a scan whose response holds candidates that do not decode (under 8
\* bytes, wrong discriminator, too short for the layout) returns, it does not
\* throw, and returns what it returns for the response without them.
C22_UndecodableSkipped ==
    /\ (ixCall.name = "fetchAllSpaces" /\ ixCall.response.status = "fulfilled") =>
          /\ ixOut.ok
          /\ ixOut.rows = fetchAllSpaces(discCache,
                                         WithoutUndecodable(ixCall.response, ConfigDecodes),
                                         ixCall.programId).rows
    /\ ixCall.name = "fetchReputationsForDaoSeason" =>
          /\ ixOut.ok
          /\ ixOut.rows = fetchReputationsForDaoSeason(discCache,
                              [season |-> ixCall.season, limit |-> ixCall.limit],
                              WithoutUndecodable(ixCall.newQuery, RepDecodes),
                              WithoutUndecodable(ixCall.oldQuery, RepDecodes)).rows

\* C22 witness: a Config cut short of its last byte was listed before the
\* Config of Dao1, and the scan returned the space of Dao1
C22_Witness ==
    /\ ixCall.name = "fetchAllSpaces"
    /\ ixCall.response.status = "fulfilled"
    /\ Len(ixCall.response.value) = 2
    /\ Len(ixCall.response.value[1].data) = ConfigMinLen - 1
    /\ subarray(ixCall.response.value[1].data, 0, 8) = ConfigDisc
    /\ ixOut.ok
    /\ Len(ixOut.rows) = 1
    /\ ixOut.rows[1].daoId = Dao1
    /\ ixOut.rows[1].configPda = Cfg1

\* the ownerId and the season a listed Config account carries
ListedDao(a) == subarray(a.data, 9, 41)
ListedSeason(a) == a.data[106] + 256 * a.data[107]

\* a listed account that is a Config of the program at its derived address
VerifiedConfig(a, programId) ==
    /\ a.owner = programId
    /\ ConfigDecodes(a)
    /\ a.pubkey = findProgramAddressSync(<<"config", ListedDao(a)>>, programId)[1]

\* C26: every space fetchAllSpaces returns is a listed account owned by the
\* given program, at the address derived from ["config", its ownerId] under
\* that program; no two spaces share an ownerId, and a space carries the
\* highest currentSeason among the verified candidates of its ownerId.
C26_SpacesVerifiedAndUnique ==
    (ixCall.name = "fetchAllSpaces" /\ ixOut.ok) =>
        LET accts == ixCall.response.value
            spaces == ixOut.rows
        IN  \A i \in 1..Len(spaces) :
                /\ spaces[i].configPda =
                      findProgramAddressSync(<<"config", spaces[i].daoId>>, ixCall.programId)[1]
                /\ \E k \in 1..Len(accts) :
                      /\ VerifiedConfig(accts[k], ixCall.programId)
                      /\ accts[k].pubkey = spaces[i].configPda
                      /\ ListedDao(accts[k]) = spaces[i].daoId
                      /\ ListedSeason(accts[k]) = spaces[i].currentSeason
                /\ \A j \in 1..Len(spaces) : spaces[j].daoId = spaces[i].daoId => j = i
                /\ \A k \in 1..Len(accts) :
                      (VerifiedConfig(accts[k], ixCall.programId)
                          /\ ListedDao(accts[k]) = spaces[i].daoId)
                      => ListedSeason(accts[k]) <= spaces[i].currentSeason

\* C26 witness: the Config of Dao1 was listed with season 3 and then with
\* season 5, and the one space returned for Dao1 carries season 5
C26_Witness ==
    /\ ixCall.name = "fetchAllSpaces"
    /\ ixOut.ok
    /\ Len(ixCall.response.value) = 2
    /\ ixCall.response.value[1].pubkey = Cfg1
    /\ ixCall.response.value[2].pubkey = Cfg1
    /\ VerifiedConfig(ixCall.response.value[1], ixCall.programId)
    /\ VerifiedConfig(ixCall.response.value[2], ixCall.programId)
    /\ ListedSeason(ixCall.response.value[1]) = 3
    /\ ListedSeason(ixCall.response.value[2]) = 5
    /\ Len(ixOut.rows) = 1
    /\ ixOut.rows[1].currentSeason = 5

----------------------------------------------------------------------------
(* Claims about the layer as a whole *)

ReadMethods == {"getAccountInfo", "getProgramAccounts"}

\* C23: no call of the layer changes the collaborator's accounts; the requests
\* a call makes of the Connection are getAccountInfo and getProgramAccounts
\* only, and a step changes nothing but the discriminator cache (and the
\* call's own arguments and result).
C23_ReadsOnly ==
    [][/\ cfgAccount' = cfgAccount
       /\ repAccount' = repAccount
       /\ UNCHANGED <<repInitial, calls, fetchVars>>
       /\ ixCall'.name \in ConnFunctions =>
             \A i \in 1..Len(ixOut'.requests) : ixOut'.requests[i].method \in ReadMethods]_vars

\* C23 witness: buildAddReputationIx returned an instruction after its two
\* reads, the cache holds the three discriminators it resolved, and the
\* Reputation account is the one there was before any call
C23_Witness ==
    /\ ixCall.name = "buildAddReputationIx"
    /\ ixOut.result.ok
    /\ ixOut.requests = <<GetAccountInfo(Cfg1), GetAccountInfo(RepAccountAddr)>>
    /\ DOMAIN discCache = {ixPreimage("addReputation"), accountPreimage("ReputationConfig"),
                           accountPreimage("Reputation")}
    /\ repAccount.exists
    /\ repAccount = repInitial

\* C25: a function that derives an address derives it under the program id
\* passed to it: the address helpers return, and the fetch helpers read, the
\* address derived under that program id (the claim as stated; the fetch
\* helpers have no such parameter and always derive under the default id).
C25_ProgramIdHonoured ==
    /\ ixCall.name = "getConfigPda" =>
          ixOut.address = findProgramAddressSync(<<"config", ixCall.daoId>>, ixCall.programId)[1]
    /\ ixCall.name = "getProjectMetaPda" =>
          ixOut.address = findProgramAddressSync(<<"project_meta", ixCall.daoId>>,
                                                 ixCall.programId)[1]
    /\ ixCall.name = "fetchConfig" =>
          ixOut.requests = <<GetAccountInfo(
              findProgramAddressSync(<<"config", ixCall.daoId>>, ixCall.programId)[1])>>
    /\ ixCall.name = "fetchProjectMetadata" =>
          ixOut.requests = <<GetAccountInfo(
              findProgramAddressSync(<<"project_meta", ixCall.daoId>>, ixCall.programId)[1])>>
    /\ ixCall.name = "fetchReputation" =>
          ixOut.requests = <<GetAccountInfo(
              getReputationPda(findProgramAddressSync(<<"config", ixCall.daoId>>,
                                                      ixCall.programId)[1],
                               ixCall.user, ixCall.season, ixCall.programId)[1])>>

====
